---------------------------- MODULE Spec2Model ----------------------------
(***************************************************************************)
(* A model of Converter::Impl (dxil_converter.cpp): the lowering of one    *)
(* DXIL entry point (an LLVM module with dx.* metadata) into a CFG of      *)
(* nodes that carry SPIR-V operations, phi records and terminators.       *)
(*                                                                         *)
(* The LLVM module is the input (variable module, never changed).  Every   *)
(* C++ member of Impl is a variable; one action models one step of         *)
(* convert_entry_point.  The handlers are operators on a record of the     *)
(* members (the record Cur), returning the record after the call.          *)
(***************************************************************************)
EXTENDS Integers, Sequences, FiniteSets, TLC

VARIABLES
    module,              \* the parsed LLVM module (input)
    pc,                  \* position in convert_entry_point
    defs,                \* spv::Builder: what every allocated id is
    capabilities,        \* spv::Builder: capabilities added
    decorations,         \* spv::Builder: decorations added, in order
    entry_point,         \* SPIRVModule: execution model and interface ids
    srv_index_to_id, uav_index_to_id, cbv_index_to_id, sampler_index_to_id,
    handle_to_ptr_id, id_to_type, value_map,
    input_elements_ids, output_elements_ids,
    metas, bb_map,       \* BlockMeta storage and the block -> meta map
    pool,                \* CFGNodePool: the nodes, a node pointer is an index
    to_process, processing, visit_order,
    result_entry,        \* ConvertedFunction::entry (0 before it is set)
    bbi, ii,             \* lowering loop: index in visit_order, next instruction
    ub,                  \* undefined behaviour has been executed
    log                  \* LOGE diagnostics, in order

vars == << module, pc, defs, capabilities, decorations, entry_point,
           srv_index_to_id, uav_index_to_id, cbv_index_to_id, sampler_index_to_id,
           handle_to_ptr_id, id_to_type, value_map,
           input_elements_ids, output_elements_ids,
           metas, bb_map, pool, to_process, processing, visit_order,
           result_entry, bbi, ii, ub, log >>

-----------------------------------------------------------------------------
(* Bounds of the model.                                                    *)

NumBlocks == 3          \* basic blocks of the entry function: 1 .. NumBlocks
MaxCases == 2           \* cases of a switch
MaxResources == 2       \* entries of one resource metadata list

-----------------------------------------------------------------------------
(* Finite maps (std::unordered_map) and vectors.                           *)

EmptyMap == << >>

MapPut(m, k, v) == [x \in (DOMAIN m) \cup {k} |-> IF x = k THEN v ELSE m[x]]

\* std::unordered_map::operator[] used as a read: a missing key is inserted
\* with a value-initialised (zero) mapped value.
MapIndex(m, k) == IF k \in DOMAIN m THEN m ELSE MapPut(m, k, 0)

\* std::vector<spv::Id>::resize(std::max(size(), n)): new slots are 0.
VecGrow(v, n) == IF n <= Len(v) THEN v
                 ELSE [i \in 1..n |-> IF i <= Len(v) THEN v[i] ELSE 0]

\* v[index] = x for a 0-based index inside the vector.
VecSet(v, index, x) == [v EXCEPT ![index + 1] = x]

-----------------------------------------------------------------------------
(* LLVM types.  A type is named by its LLVM spelling.                      *)

IntTypes == {"i1", "i8", "i16", "i32", "i64"}
PtrTypes == {"float*", "i32*", "[4 x float]*", "%struct.S*"}
ArrTypes == {"[4 x float]"}
StructTypes == {"%struct.S", "%dx.types.Handle",
                "%dx.types.ResRet.f32", "%dx.types.ResRet.i32",
                "%dx.types.CBufRet.f32", "%dx.types.CBufRet.i32"}

getTypeID(t) ==
    CASE t = "half" -> "HalfTyID"
      [] t = "float" -> "FloatTyID"
      [] t = "double" -> "DoubleTyID"
      [] t \in IntTypes -> "IntegerTyID"
      [] t \in PtrTypes -> "PointerTyID"
      [] t \in ArrTypes -> "ArrayTyID"
      [] t \in StructTypes -> "StructTyID"
      [] t = "<4 x float>" -> "VectorTyID"
      [] OTHER -> "VoidTyID"

getIntegerBitWidth(t) ==
    CASE t = "i1" -> 1 [] t = "i8" -> 8 [] t = "i16" -> 16
      [] t = "i32" -> 32 [] t = "i64" -> 64

getPointerElementType(t) ==
    CASE t = "float*" -> "float" [] t = "i32*" -> "i32"
      [] t = "[4 x float]*" -> "[4 x float]" [] t = "%struct.S*" -> "%struct.S"

getArrayElementType(t) == CASE t = "[4 x float]" -> "float"
getArrayNumElements(t) == CASE t = "[4 x float]" -> 4

getStructElementType0(t) ==
    CASE t \in {"%dx.types.ResRet.f32", "%dx.types.CBufRet.f32", "%struct.S"} -> "float"
      [] t \in {"%dx.types.ResRet.i32", "%dx.types.CBufRet.i32"} -> "i32"
      [] t = "%dx.types.Handle" -> "i8"

-----------------------------------------------------------------------------
(* spv::Builder and SPIRVModule::allocate_id.  defs[id] says what id is:   *)
(* a tuple <<class, a, b, c, d, e, f>>.  Ids are 1, 2, ... in allocation   *)
(* order; 0 is no id.  Types and constants are interned (the builder       *)
(* returns the existing id); struct types, strided array types, variables, *)
(* undefs and plain result ids are new on every call.                      *)
(*                                                                         *)
(* A call that returns an id yields R(s, id): the state after it and the   *)
(* id.  Bind(call, LAMBDA r : rest) is "r = call; rest": the call is       *)
(* evaluated first, and the rest sees its value.                           *)

R(s, id) == [s |-> s, id |-> id]

Bind(r, rest(_)) == CHOOSE out \in {rest(x) : x \in {r}} : TRUE

NewId(s, d) == R([s EXCEPT !.defs = Append(@, d)], Len(s.defs) + 1)

Intern(s, d) ==
    IF \E i \in 1..Len(s.defs) : s.defs[i] = d
    THEN R(s, CHOOSE i \in 1..Len(s.defs) : s.defs[i] = d)
    ELSE NewId(s, d)

allocate_id(s) == NewId(s, <<"result", 0, 0, 0, 0, 0, 0>>)

makeFloatType(s, bits) == Intern(s, <<"float", bits, 0, 0, 0, 0, 0>>)
makeIntegerType(s, bits, signed) ==
    Intern(s, <<"int", bits, IF signed THEN 1 ELSE 0, 0, 0, 0, 0>>)
makeUintType(s, bits) == makeIntegerType(s, bits, FALSE)
makeBoolType(s) == Intern(s, <<"bool", 0, 0, 0, 0, 0, 0>>)
makeVectorType(s, component, count) == Intern(s, <<"vector", component, count, 0, 0, 0, 0>>)

\* spv::Builder::makeMatrixType(component, cols, rows): the column vector
\* type first, then the matrix of cols columns.
makeMatrixType(s, component, cols, rows) ==
    Bind(makeVectorType(s, component, rows), LAMBDA column :
        Intern(column.s, <<"matrix", column.id, cols, 0, 0, 0, 0>>))

makeArrayType(s, element, sizeId, stride) ==
    IF stride = 0 THEN Intern(s, <<"array", element, sizeId, 0, 0, 0, 0>>)
    ELSE NewId(s, <<"array", element, sizeId, stride, 0, 0, 0>>)

makePointer(s, storageClass, pointee) ==
    Intern(s, <<"pointer", storageClass, pointee, 0, 0, 0, 0>>)
makeStructType(s, member) == NewId(s, <<"struct", member, 0, 0, 0, 0, 0>>)
makeImageType(s, sampledType, dim, depth, arrayed, ms, sampled) ==
    Intern(s, <<"image", sampledType, dim, depth, arrayed, ms, sampled>>)
makeSamplerType(s) == Intern(s, <<"sampler", 0, 0, 0, 0, 0, 0>>)
makeSampledImageType(s, imageType) == Intern(s, <<"sampledimage", imageType, 0, 0, 0, 0, 0>>)

\* A constant is interned by its type and value; the builder makes the type
\* first.  A 32-bit integer constant is given by its bit pattern <<hi, lo>>.
makeUintConstant(s, p) ==
    Bind(makeUintType(s, 32), LAMBDA t : Intern(t.s, <<"constant", t.id, p[1], p[2], 0, 0, 0>>))
makeIntConstant(s, p) ==
    Bind(makeIntegerType(s, 32, TRUE), LAMBDA t :
        Intern(t.s, <<"constant", t.id, p[1], p[2], 0, 0, 0>>))
makeFloatConstant(s, v) ==
    Bind(makeFloatType(s, 32), LAMBDA t : Intern(t.s, <<"constant", t.id, v, 0, 0, 0, 0>>))
makeDoubleConstant(s, v) ==
    Bind(makeFloatType(s, 64), LAMBDA t : Intern(t.s, <<"constant", t.id, v, 0, 0, 0, 0>>))
makeBoolConstant(s, v) ==
    Bind(makeBoolType(s), LAMBDA t :
        Intern(t.s, <<"constant", t.id, IF v THEN 1 ELSE 0, 0, 0, 0, 0>>))

\* createVariable makes the pointer type of the storage class, then the variable.
createVariable(s, storageClass, type) ==
    Bind(makePointer(s, storageClass, type), LAMBDA p :
        NewId(p.s, <<"variable", storageClass, p.id, 0, 0, 0, 0>>))

createUndefined(s, type) == NewId(s, <<"undef", type, 0, 0, 0, 0, 0>>)

addDecoration(s, id, deco, operand) ==
    [s EXCEPT !.decorations = Append(@, <<id, deco, operand>>)]
addMemberDecoration(s, id, member, deco, operand) ==
    [s EXCEPT !.decorations = Append(@, <<id, deco, operand>>)]
addCapability(s, cap) == [s EXCEPT !.capabilities = @ \cup {cap}]

IsId(s, id) == id \in 1..Len(s.defs)
ClassOf(s, id) == IF IsId(s, id) THEN s.defs[id][1] ELSE "none"

\* The type of a variable is its pointer type; getDerefTypeId is the pointee.
getTypeId(s, id) == IF ClassOf(s, id) \in {"variable"} THEN s.defs[id][3] ELSE 0
getContainedTypeId(s, type) ==
    CASE ClassOf(s, type) = "pointer" -> s.defs[type][3]
      [] ClassOf(s, type) \in {"vector", "matrix", "array"} -> s.defs[type][2]
      [] OTHER -> 0
getDerefTypeId(s, id) == getContainedTypeId(s, getTypeId(s, id))

getNumTypeComponents(s, type) ==
    CASE ClassOf(s, type) \in {"vector", "matrix"} -> s.defs[type][3]
      [] OTHER -> 1

RECURSIVE getScalarTypeId(_, _)
getScalarTypeId(s, type) ==
    CASE ClassOf(s, type) \in {"vector", "matrix", "array", "pointer"} ->
             getScalarTypeId(s, getContainedTypeId(s, type))
      [] OTHER -> type

getTypeDimensionality(s, type) == IF ClassOf(s, type) = "image" THEN s.defs[type][3] ELSE "DimMax"
isArrayedImageType(s, type) == ClassOf(s, type) = "image" /\ s.defs[type][5] = 1
isMultisampledImageType(s, type) == ClassOf(s, type) = "image" /\ s.defs[type][6] = 1
getImageComponentType(s, type) == IF ClassOf(s, type) = "image" THEN s.defs[type][2] ELSE 0

-----------------------------------------------------------------------------
(* LLVM values.  A value (the llvm::Value * the maps are keyed by) is      *)
(*   <<"inst", type, b, i>>   instruction i (1-based) of block b           *)
(*   <<"cint", type, hi, lo>> ConstantInt of an integer type (bits below)  *)
(*   <<"cfp", type, v, 0>>    ConstantFP (v stands for the value)          *)
(*   <<"null", type, 0, 0>>   ConstantPointerNull                          *)
(*   <<"undef", type, 0, 0>>  UndefValue                                   *)
(* Constants and undefs are uniqued by LLVM, so equal tuples are one value.*)

\* TLC's integers are 32-bit signed, so a 32- or 64-bit pattern is kept as
\* two numbers <<hi, lo>> with value hi * 2^16 + lo and lo < 2^16.  A
\* ConstantInt <<"cint", type, hi, lo>> carries its zero-extended bits so.
Limb == 256 * 256

Inst(ty, b, i) == <<"inst", ty, b, i>>
CInt(ty, v) == <<"cint", ty, v \div Limb, v % Limb>>   \* for v below 2^31
CFP(ty, v) == <<"cfp", ty, v, 0>>
Undef(ty) == <<"undef", ty, 0, 0>>
Null(ty) == <<"null", ty, 0, 0>>

TypeOf(v) == v[2]
isUndefValue(v) == v[1] = "undef"
isConstant(v) == v[1] \in {"cint", "cfp", "null", "undef"}
isConstantInt(v) == v[1] = "cint"

Bits(n) == <<n \div Limb, n % Limb>>       \* a number below 2^31 as a pattern
CIntBits(ty, hi, lo) == <<"cint", ty, hi, lo>>
getZExtValue(v) == <<v[3], v[4]>>

\* uint32_t(x), unsigned(x): the low 32 bits.
U32(p) == <<p[1] % Limb, p[2]>>

\* The number a 32-bit pattern stands for, when it is below 2^31.
ToNat(p) == p[1] * Limb + p[2]

\* (p + k) as a 32-bit unsigned sum, for 0 <= k < 2^16.
Add32(p, k) == <<(p[1] + (p[2] + k) \div Limb) % Limb, (p[2] + k) % Limb>>

\* int(getSExtValue()) of a constant: the low 32 bits of its sign extension.
SExt32(v) ==
    LET w == getIntegerBitWidth(TypeOf(v))
        sign == CASE w = 1 -> 1 [] w = 8 -> 128 [] w = 16 -> Limb \div 2 [] OTHER -> 0
    IN  IF w >= 32 THEN U32(getZExtValue(v))
        ELSE IF v[4] >= sign THEN <<Limb - 1, v[4] + (Limb - 2 * sign)>>
        ELSE <<0, v[4]>>

-----------------------------------------------------------------------------
(* Diagnostics.                                                            *)

LOGE(s, msg) == [s EXCEPT !.log = Append(@, msg)]

-----------------------------------------------------------------------------
(* Type ids.                                                               *)

\* get_type_id(const llvm::Type &).  The arguments of makeArrayType are
\* taken in the order written.
RECURSIVE get_type_id(_, _)
get_type_id(s, t) ==
    LET tid == getTypeID(t) IN
    CASE tid = "HalfTyID" -> makeFloatType(s, 16)
      [] tid = "FloatTyID" -> makeFloatType(s, 32)
      [] tid = "DoubleTyID" -> makeFloatType(s, 64)
      [] tid = "IntegerTyID" ->
             IF getIntegerBitWidth(t) = 1 THEN makeBoolType(s)
             ELSE makeIntegerType(s, getIntegerBitWidth(t), FALSE)
      [] tid = "PointerTyID" ->
             Bind(get_type_id(s, getPointerElementType(t)), LAMBDA e :
                 makePointer(e.s, "Function", e.id))
      [] tid = "ArrayTyID" ->
             Bind(get_type_id(s, getArrayElementType(t)), LAMBDA e :
             Bind(makeUintConstant(e.s, Bits(getArrayNumElements(t))), LAMBDA n :
                 makeArrayType(n.s, e.id, n.id, 0)))
      [] OTHER -> R(s, 0)

\* The component type of get_type_id(element_type, rows, cols).
component_type(s, element_type) ==
    CASE element_type = "I1" -> makeBoolType(s)
      [] element_type = "I16" -> makeIntegerType(s, 16, TRUE)
      [] element_type = "U16" -> makeIntegerType(s, 16, FALSE)
      [] element_type = "I32" -> makeIntegerType(s, 32, TRUE)
      [] element_type = "U32" -> makeIntegerType(s, 32, FALSE)
      [] element_type = "I64" -> makeIntegerType(s, 64, TRUE)
      [] element_type = "U64" -> makeIntegerType(s, 64, FALSE)
      [] element_type = "F16" -> makeFloatType(s, 16)
      [] element_type = "F32" -> makeFloatType(s, 32)
      [] element_type = "F64" -> makeFloatType(s, 64)
      [] OTHER -> R(LOGE(s, "Unknown component type."), 0)

\* get_type_id(unsigned element_type, unsigned rows, unsigned cols).
get_type_id_component(s, element_type, rows, cols) ==
    Bind(component_type(s, element_type), LAMBDA c :
        IF c.id = 0 THEN c
        ELSE IF rows = 1 /\ cols = 1 THEN c
        ELSE IF rows = 1 THEN makeVectorType(c.s, c.id, cols)
        ELSE makeMatrixType(c.s, c.id, rows, cols))

\* get_type_id(spv::Id) const.
get_type_id_of_id(s, id) == IF id \in DOMAIN s.id_to_type THEN s.id_to_type[id] ELSE 0

-----------------------------------------------------------------------------
(* Value ids.                                                              *)

\* A faulty get_id_for_constant: an integer constant of any width gets a
\* 32-bit constant.
get_id_for_constant_any_width(s, constant, forced_width) ==
    LET tid == getTypeID(TypeOf(constant)) IN
    CASE tid = "FloatTyID" -> makeFloatConstant(s, constant[3])
      [] tid = "DoubleTyID" -> makeDoubleConstant(s, constant[3])
      [] tid = "IntegerTyID" -> makeUintConstant(s, U32(getZExtValue(constant)))
      [] OTHER -> R(s, 0)

get_id_for_constant(s, constant, forced_width) ==
    LET tid == getTypeID(TypeOf(constant)) IN
    CASE tid = "FloatTyID" -> makeFloatConstant(s, constant[3])
      [] tid = "DoubleTyID" -> makeDoubleConstant(s, constant[3])
      [] tid = "IntegerTyID" ->
             LET integer_width == IF forced_width # 0 THEN forced_width
                                  ELSE getIntegerBitWidth(TypeOf(constant))
             IN  IF integer_width = 32
                 THEN makeUintConstant(s, U32(getZExtValue(constant)))
                 ELSE R(s, 0)
      [] OTHER -> R(s, 0)

get_id_for_undef(s, undef) ==
    Bind(get_type_id(s, TypeOf(undef)), LAMBDA t : createUndefined(t.s, t.id))

\* Lines 383-389: the id of a value that is not in value_map.
new_id_for_value(s, value, forced_width) ==
    IF isUndefValue(value) THEN get_id_for_undef(s, value)
    ELSE IF isConstant(value) THEN get_id_for_constant(s, value, forced_width)
    ELSE allocate_id(s)

get_id_for_value_w(s, value, forced_width) ==
    IF value \in DOMAIN s.value_map THEN R(s, s.value_map[value])
    ELSE Bind(new_id_for_value(s, value, forced_width), LAMBDA ret :
             R([ret.s EXCEPT !.value_map = MapPut(@, value, ret.id)], ret.id))

get_id_for_value(s, value) == get_id_for_value_w(s, value, 0)

\* for (i ...) ids[i] = get_id_for_value(*values[i]): the ids, in order.
RECURSIVE ids_for_values(_, _, _)
ids_for_values(s, values, ids) ==
    IF values = << >> THEN R(s, ids)
    ELSE Bind(get_id_for_value(s, Head(values)), LAMBDA r :
             ids_for_values(r.s, Tail(values), Append(ids, r.id)))

-----------------------------------------------------------------------------
(* Resources (dx.resources).                                               *)

image_dimension_from_resource_kind(kind) ==
    CASE kind \in {"Texture1D", "Texture1DArray"} -> "Dim1D"
      [] kind \in {"Texture2D", "Texture2DMS", "Texture2DArray", "Texture2DMSArray"} -> "Dim2D"
      [] kind = "Texture3D" -> "Dim3D"
      [] kind \in {"TextureCube", "TextureCubeArray"} -> "DimCube"
      [] kind \in {"TypedBuffer", "StructuredBuffer", "RawBuffer"} -> "DimBuffer"
      [] OTHER -> "DimMax"

image_dimension_is_arrayed(kind) ==
    kind \in {"Texture1DArray", "Texture2DArray", "Texture2DMSArray", "TextureCubeArray"}

image_dimension_is_multisampled(kind) == kind \in {"Texture2DMS", "Texture2DMSArray"}

B2I(b) == IF b THEN 1 ELSE 0

\* A faulty table_set: the id is pushed to the back of the table.
table_set_push_back(table, index, id) == Append(table, id)

\* table.resize(std::max(table.size(), index + 1)); table[index] = id
table_set(table, index, id) == VecSet(VecGrow(table, index + 1), index, id)

\* The two decorations every resource variable gets.
decorate_binding(s, id, bind_space, bind_register) ==
    addDecoration(addDecoration(s, id, "DescriptorSet", bind_space),
                  id, "Binding", bind_register)

\* One iteration of the loop of emit_srvs.
emit_srv(s, srv) ==
    Bind(IF srv.tag0 = 0 THEN get_type_id_component(s, srv.comp, 1, 1)
         ELSE makeUintType(s, 32), LAMBDA sampled_type_id :
    Bind(makeImageType(sampled_type_id.s, sampled_type_id.id,
                       image_dimension_from_resource_kind(srv.kind), 0,
                       B2I(image_dimension_is_arrayed(srv.kind)),
                       B2I(image_dimension_is_multisampled(srv.kind)), 1), LAMBDA type_id :
    Bind(createVariable(type_id.s, "UniformConstant", type_id.id), LAMBDA var_id :
        [decorate_binding(var_id.s, var_id.id, srv.bind_space, srv.bind_register)
           EXCEPT !.srv_index_to_id = table_set(@, srv.index, var_id.id)])))

RECURSIVE emit_srvs_from(_, _, _)
emit_srvs_from(s, srvs, i) ==
    IF i > Len(srvs) THEN s ELSE emit_srvs_from(emit_srv(s, srvs[i]), srvs, i + 1)

emit_srvs(s, srvs) == emit_srvs_from(s, srvs, 1)

emit_uavs(s, uavs) == s

\* unsigned vec4_length = (cbv_size + 15) / 16, in 32-bit unsigned arithmetic.
vec4_length(cbv_size) ==
    Bits(Add32(cbv_size, 15)[1] * (Limb \div 16) + Add32(cbv_size, 15)[2] \div 16)

\* The struct type of a constant buffer: a Block of one member, an array of
\* vec4_length float vectors with stride 16.
cbv_struct_type(s, cbv) ==
    Bind(makeFloatType(s, 32), LAMBDA f :
    Bind(makeVectorType(f.s, f.id, 4), LAMBDA member_type_id :
    Bind(makeUintConstant(member_type_id.s, vec4_length(cbv.size)), LAMBDA n :
    Bind(makeArrayType(n.s, member_type_id.id, n.id, 16), LAMBDA member_array_type :
    Bind(makeStructType(addDecoration(member_array_type.s, member_array_type.id,
                                      "ArrayStride", 16),
                        member_array_type.id), LAMBDA type_id :
        R(addDecoration(addMemberDecoration(type_id.s, type_id.id, 0, "Offset", 0),
                        type_id.id, "Block", 0),
          type_id.id))))))

\* One iteration of the loop of emit_cbvs.
emit_cbv(s, cbv) ==
    Bind(cbv_struct_type(s, cbv), LAMBDA type_id :
    Bind(createVariable(type_id.s, "Uniform", type_id.id), LAMBDA var_id :
        [decorate_binding(var_id.s, var_id.id, cbv.bind_space, cbv.bind_register)
           EXCEPT !.cbv_index_to_id = table_set(@, cbv.index, var_id.id)]))

RECURSIVE emit_cbvs_from(_, _, _)
emit_cbvs_from(s, cbvs, i) ==
    IF i > Len(cbvs) THEN s ELSE emit_cbvs_from(emit_cbv(s, cbvs[i]), cbvs, i + 1)

emit_cbvs(s, cbvs) == emit_cbvs_from(s, cbvs, 1)

\* One iteration of the loop of emit_samplers.
emit_sampler(s, sampler) ==
    Bind(makeSamplerType(s), LAMBDA type_id :
    Bind(createVariable(type_id.s, "UniformConstant", type_id.id), LAMBDA var_id :
        [decorate_binding(var_id.s, var_id.id, sampler.bind_space, sampler.bind_register)
           EXCEPT !.sampler_index_to_id = table_set(@, sampler.index, var_id.id)]))

RECURSIVE emit_samplers_from(_, _, _)
emit_samplers_from(s, samplers, i) ==
    IF i > Len(samplers) THEN s
    ELSE emit_samplers_from(emit_sampler(s, samplers[i]), samplers, i + 1)

emit_samplers(s, samplers) == emit_samplers_from(s, samplers, 1)

\* emit_resources: nothing without dx.resources; else the four lists in order.
emit_resources(s, m) ==
    IF ~m.has_resources THEN s
    ELSE emit_samplers(emit_cbvs(emit_uavs(emit_srvs(s, m.srvs), m.uavs), m.cbvs), m.samplers)

-----------------------------------------------------------------------------
(* Stage input and output variables (the signature of dx.entryPoints).     *)
(* The loops carry [s, location]: the state and the local counter.         *)

emit_builtin_decoration(s, id, semantic) ==
    IF semantic = "Position" THEN addDecoration(s, id, "BuiltIn", 0) ELSE s

register_interface(s, id) == [s EXCEPT !.entry_point.interface = Append(@, id)]

\* A faulty iteration: every element advances the counter, whatever its semantic.
emit_stage_input_advance_all(st, input) ==
    Bind(get_type_id_component(st.s, input.element_type, input.rows, input.cols), LAMBDA type_id :
    Bind(createVariable(type_id.s, "Input", type_id.id), LAMBDA variable_id :
    Bind([variable_id.s EXCEPT !.input_elements_ids =
              MapPut(@, input.element_id, variable_id.id)], LAMBDA s1 :
        [s |-> register_interface(
                   IF input.semantic # "User"
                   THEN emit_builtin_decoration(s1, variable_id.id, input.semantic)
                   ELSE addDecoration(s1, variable_id.id, "Location", st.location),
                   variable_id.id),
         location |-> st.location + input.rows])))

\* One iteration of the loop of emit_stage_input_variables.
emit_stage_input(st, input) ==
    Bind(get_type_id_component(st.s, input.element_type, input.rows, input.cols), LAMBDA type_id :
    Bind(createVariable(type_id.s, "Input", type_id.id), LAMBDA variable_id :
    Bind([variable_id.s EXCEPT !.input_elements_ids =
              MapPut(@, input.element_id, variable_id.id)], LAMBDA s1 :
        IF input.semantic # "User"
        THEN [s |-> register_interface(
                        emit_builtin_decoration(s1, variable_id.id, input.semantic),
                        variable_id.id),
              location |-> st.location]
        ELSE [s |-> register_interface(
                        addDecoration(s1, variable_id.id, "Location", st.location),
                        variable_id.id),
              location |-> st.location + input.rows])))

RECURSIVE emit_stage_inputs_from(_, _, _)
emit_stage_inputs_from(st, inputs, i) ==
    IF i > Len(inputs) THEN st.s
    ELSE emit_stage_inputs_from(emit_stage_input(st, inputs[i]), inputs, i + 1)

\* ep_meta is null when the module has no dx.entryPoints; the reads through
\* it are undefined, and the run that goes on finds no element.
emit_stage_input_variables(s, m) ==
    IF ~m.has_entry_points THEN [s EXCEPT !.ub = TRUE]
    ELSE emit_stage_inputs_from([s |-> s, location |-> 0], m.inputs, 1)

\* One iteration of the loop of emit_stage_output_variables.
emit_stage_output(st, output) ==
    Bind(get_type_id_component(st.s, output.element_type, output.rows, output.cols), LAMBDA type_id :
    Bind(createVariable(type_id.s, "Output", type_id.id), LAMBDA variable_id :
    Bind([variable_id.s EXCEPT !.output_elements_ids =
              MapPut(@, output.element_id, variable_id.id)], LAMBDA s1 :
        IF output.semantic = "Target"
        THEN [s |-> register_interface(
                        addDecoration(s1, variable_id.id, "Location", output.semantic_index),
                        variable_id.id),
              location |-> st.location]
        ELSE IF output.semantic # "User"
        THEN [s |-> register_interface(
                        emit_builtin_decoration(s1, variable_id.id, output.semantic),
                        variable_id.id),
              location |-> st.location]
        ELSE [s |-> register_interface(
                        addDecoration(s1, variable_id.id, "Location", st.location),
                        variable_id.id),
              location |-> st.location + output.rows])))

RECURSIVE emit_stage_outputs_from(_, _, _)
emit_stage_outputs_from(st, outputs, i) ==
    IF i > Len(outputs) THEN st.s
    ELSE emit_stage_outputs_from(emit_stage_output(st, outputs[i]), outputs, i + 1)

emit_stage_output_variables(s, m) ==
    IF ~m.has_entry_points THEN [s EXCEPT !.ub = TRUE]
    ELSE emit_stage_outputs_from([s |-> s, location |-> 0], m.outputs, 1)

-----------------------------------------------------------------------------
(* Operations, phis, terminators and CFG nodes (ir.hpp, node.hpp).         *)

DefaultOperation == [op |-> "OpNop", id |-> 0, type_id |-> 0, arguments |-> << >>]

Op(op, id, type_id, arguments) ==
    [op |-> op, id |-> id, type_id |-> type_id, arguments |-> arguments]

DefaultTerminator ==
    [type |-> "None", conditional_id |-> 0, true_block |-> 0, false_block |-> 0,
     direct_block |-> 0, default_node |-> 0, cases |-> << >>, return_value |-> 0]

NewNode(name) ==
    [name |-> name, operations |-> << >>, phi |-> << >>,
     terminator |-> DefaultTerminator, succ |-> {}, pred |-> {}]

\* CFGNodePool::create_node: the new node is the last of the pool.
create_node(s, name) == R([s EXCEPT !.pool = Append(@, NewNode(name))], Len(s.pool) + 1)

\* CFGNode::add_branch(to): to joins the successors, this joins to's predecessors.
add_branch(s, from, to) ==
    [s EXCEPT !.pool = [n \in DOMAIN @ |->
        [@[n] EXCEPT !.succ = IF n = from THEN @ \cup {to} ELSE @,
                     !.pred = IF n = to THEN @ \cup {from} ELSE @]]]

\* A faulty push_operation: the operation is put before the others.
push_operation_front(s, block, op) == [s EXCEPT !.pool[block].operations = <<op>> \o @]

\* block->ir.operations.push_back(op)
push_operation(s, block, op) == [s EXCEPT !.pool[block].operations = Append(@, op)]

\* instruction.getOperand(k), k from 0.
getOperand(I, k) == I.args[k + 1]

\* get_constant_operand: uint32_t of the zero-extended constant operand; the
\* operands read this way are small numbers.
get_constant_operand(I, k) == ToNat(U32(getZExtValue(getOperand(I, k))))

\* std::vector operator[] as a read; outside the vector the read is undefined
\* behaviour: it yields the value garbage and the state is marked.
VecRead(s, v, index, garbage) ==
    IF index < Len(v) THEN R(s, v[index + 1]) ELSE R([s EXCEPT !.ub = TRUE], garbage)

\* map[key] as a read of an unordered_map<_, spv::Id>: a missing key is
\* inserted with id 0.
handle_read(s, key) ==
    R([s EXCEPT !.handle_to_ptr_id = MapIndex(@, key)], MapIndex(s.handle_to_ptr_id, key)[key])
input_read(s, key) ==
    R([s EXCEPT !.input_elements_ids = MapIndex(@, key)],
      MapIndex(s.input_elements_ids, key)[key])
output_read(s, key) ==
    R([s EXCEPT !.output_elements_ids = MapIndex(@, key)],
      MapIndex(s.output_elements_ids, key)[key])

-----------------------------------------------------------------------------
(* DXIL intrinsics.  An instruction I is a record                          *)
(*   [self, kind, ty, op, args, blocks, idx]:                              *)
(* self its value, ty its type, op its opcode, predicate or callee name,   *)
(* args its operands, blocks a phi's incoming blocks, idx the indices of   *)
(* an extractvalue.                                                        *)

\* Lines 682-692: the access chain to the row named by operand 3.
load_input_access_chain(s, block, I, var_id) ==
    Bind(allocate_id(s), LAMBDA ptr_id :
    Bind(get_type_id(ptr_id.s, I.ty), LAMBDA t :
    Bind(makePointer(t.s, "Input", t.id), LAMBDA type_id :
    Bind(get_id_for_value_w(type_id.s, getOperand(I, 3), 32), LAMBDA row :
        R(push_operation(row.s, block,
              Op("OpInBoundsAccessChain", ptr_id.id, type_id.id, <<var_id, row.id>>)),
          ptr_id.id)))))

emit_load_input_instruction(s, block, I) ==
    Bind(input_read(s, get_constant_operand(I, 1)), LAMBDA var_id :
    Bind(IF getNumTypeComponents(var_id.s, getDerefTypeId(var_id.s, var_id.id)) > 1
         THEN load_input_access_chain(var_id.s, block, I, var_id.id)
         ELSE R(var_id.s, var_id.id), LAMBDA ptr_id :
    Bind(get_id_for_value(ptr_id.s, I.self), LAMBDA id :
    Bind(get_type_id(id.s, I.ty), LAMBDA type_id :
        push_operation(type_id.s, block, Op("OpLoad", id.id, type_id.id, <<ptr_id.id>>))))))

\* Lines 718-728.
store_output_access_chain(s, block, I, var_id) ==
    Bind(allocate_id(s), LAMBDA ptr_id :
    Bind(makePointer(ptr_id.s, "Output",
                     getScalarTypeId(ptr_id.s, getDerefTypeId(ptr_id.s, var_id))),
         LAMBDA type_id :
    Bind(get_id_for_value_w(type_id.s, getOperand(I, 3), 32), LAMBDA row :
        R(push_operation(row.s, block,
              Op("OpInBoundsAccessChain", ptr_id.id, type_id.id, <<var_id, row.id>>)),
          ptr_id.id))))

emit_store_output_instruction(s, block, I) ==
    Bind(output_read(s, get_constant_operand(I, 1)), LAMBDA var_id :
    Bind(IF getNumTypeComponents(var_id.s, getDerefTypeId(var_id.s, var_id.id)) > 1
         THEN store_output_access_chain(var_id.s, block, I, var_id.id)
         ELSE R(var_id.s, var_id.id), LAMBDA ptr_id :
    Bind(get_id_for_value(ptr_id.s, getOperand(I, 4)), LAMBDA value :
        push_operation(value.s, block, Op("OpStore", 0, 0, <<ptr_id.id, value.id>>)))))

\* The SRV and Sampler cases of emit_create_handle_instruction.
load_handle(s, block, I, table, garbage) ==
    Bind(VecRead(s, table, get_constant_operand(I, 2), garbage), LAMBDA var :
    Bind(allocate_id(var.s), LAMBDA id :
        push_operation(
            [id.s EXCEPT !.id_to_type = MapPut(@, id.id, getDerefTypeId(var.s, var.id)),
                         !.handle_to_ptr_id = MapPut(@, I.self, id.id)],
            block, Op("OpLoad", id.id, getDerefTypeId(var.s, var.id), <<var.id>>))))

\* The UAV and CBV cases.
bind_handle(s, I, table, garbage) ==
    Bind(VecRead(s, table, get_constant_operand(I, 2), garbage), LAMBDA var :
        [var.s EXCEPT !.handle_to_ptr_id = MapPut(@, I.self, var.id)])

\* DXIL::ResourceType: SRV 0, UAV 1, CBV 2, Sampler 3.
emit_create_handle_instruction(s, block, I, garbage) ==
    LET resource_type == get_constant_operand(I, 1) IN
    CASE resource_type = 0 -> load_handle(s, block, I, s.srv_index_to_id, garbage)
      [] resource_type = 1 -> bind_handle(s, I, s.uav_index_to_id, garbage)
      [] resource_type = 2 -> bind_handle(s, I, s.cbv_index_to_id, garbage)
      [] resource_type = 3 -> load_handle(s, block, I, s.sampler_index_to_id, garbage)
      [] OTHER -> s

\* A faulty cbuffer_load: the load takes the instruction's id also when a
\* bitcast follows.
cbuffer_load_one_id(s, block, I, access_chain_id, vec4_type) ==
    Bind(get_id_for_value(s, I.self), LAMBDA id :
    Bind(push_operation(id.s, block, Op("OpLoad", id.id, vec4_type, <<access_chain_id>>)),
         LAMBDA s1 :
        IF getTypeID(getStructElementType0(I.ty)) = "FloatTyID" THEN s1
        ELSE Bind(makeUintType(s1, 32), LAMBDA u :
             Bind(makeVectorType(u.s, u.id, 4), LAMBDA type_id :
                 push_operation(type_id.s, block,
                     Op("OpBitcast", id.id, type_id.id, <<id.id>>))))))

\* Lines 821-841: the load of the vec4, bitcast to uvec4 unless the result
\* struct holds floats.
cbuffer_load(s, block, I, access_chain_id, vec4_type) ==
    IF getTypeID(getStructElementType0(I.ty)) # "FloatTyID"
    THEN Bind(allocate_id(s), LAMBDA load :
         Bind(get_id_for_value(
                  push_operation(load.s, block,
                      Op("OpLoad", load.id, vec4_type, <<access_chain_id>>)),
                  I.self), LAMBDA id :
         Bind(makeUintType(id.s, 32), LAMBDA u :
         Bind(makeVectorType(u.s, u.id, 4), LAMBDA type_id :
             push_operation(type_id.s, block,
                 Op("OpBitcast", id.id, type_id.id, <<load.id>>))))))
    ELSE Bind(get_id_for_value(s, I.self), LAMBDA id :
             push_operation(id.s, block, Op("OpLoad", id.id, vec4_type, <<access_chain_id>>)))

emit_cbuffer_load_legacy_instruction(s, block, I) ==
    Bind(handle_read(s, getOperand(I, 1)), LAMBDA ptr_id :
    Bind(get_id_for_value(ptr_id.s, getOperand(I, 2)), LAMBDA vec4_index :
    Bind(allocate_id(vec4_index.s), LAMBDA access_chain_id :
    Bind(makeFloatType(access_chain_id.s, 32), LAMBDA f :
    Bind(makeVectorType(f.s, f.id, 4), LAMBDA vec4 :
    Bind(makePointer(vec4.s, "Uniform", vec4.id), LAMBDA type_id :
    Bind(makeUintConstant(type_id.s, Bits(0)), LAMBDA zero :
        cbuffer_load(
            push_operation(zero.s, block,
                Op("OpInBoundsAccessChain", access_chain_id.id, type_id.id,
                   <<ptr_id.id, zero.id, vec4_index.id>>)),
            block, I, access_chain_id.id, vec4.id))))))))

build_sampled_image(s, block, image_id, sampler_id, comparison) ==
    Bind(makeImageType(s, getImageComponentType(s, get_type_id_of_id(s, image_id)),
                       getTypeDimensionality(s, get_type_id_of_id(s, image_id)),
                       B2I(comparison),
                       B2I(isArrayedImageType(s, get_type_id_of_id(s, image_id))),
                       B2I(isMultisampledImageType(s, get_type_id_of_id(s, image_id))), 2),
         LAMBDA image_type_id :
    Bind(allocate_id(image_type_id.s), LAMBDA id :
    Bind(makeSampledImageType(id.s, image_type_id.id), LAMBDA type_id :
        R(push_operation(type_id.s, block,
              Op("OpSampledImage", id.id, type_id.id, <<image_id, sampler_id>>)),
          id.id))))

\* build_vector: elements is the sequence of the count elements.
build_vector(s, block, element_type, elements) ==
    IF Len(elements) = 1 THEN R(s, elements[1])
    ELSE Bind(allocate_id(s), LAMBDA id :
         Bind(makeVectorType(id.s, element_type, Len(elements)), LAMBDA type_id :
             R(push_operation(type_id.s, block,
                   Op("OpCompositeConstruct", id.id, type_id.id, elements)),
               id.id)))

\* DXIL::Op numbers of the intrinsics the converter handles.
LoadInput == 4
StoreOutput == 5
CreateHandle == 57
CBufferLoadLegacy == 59
Sample == 60
SampleBias == 61
SampleLevel == 62
SampleCmp == 64
SampleCmpLevelZero == 65

\* spv::ImageOperandsMask bits.  A mask under construction is the set of
\* its bits (|= is union); the literal pushed as an argument is their sum.
ImageOperandsBiasMask == 1
ImageOperandsLodMask == 2
ImageOperandsConstOffsetMask == 8
ImageOperandsMinLodMask == 128

RECURSIVE MaskLiteral(_)
MaskLiteral(bits) ==
    IF bits = {} THEN 0
    ELSE LET b == CHOOSE x \in bits : TRUE IN b + MaskLiteral(bits \ {b})

comparison_sampling(opcode) == opcode \in {SampleCmp, SampleCmpLevelZero}

\* Lines 900-919: the number of coordinates, 0 for an unexpected dimensionality.
num_coords_of(dim) ==
    CASE dim \in {"Dim1D", "DimBuffer"} -> 1
      [] dim = "Dim2D" -> 2
      [] dim \in {"Dim3D", "DimCube"} -> 3
      [] OTHER -> 0

aux_argument_index(opcode) == IF opcode = SampleCmp THEN 11 ELSE 10

\* Lines 956-964: Sample and SampleCmp with a clamp operand that is not undef.
has_min_lod(opcode, I) ==
    opcode \in {Sample, SampleCmp} /\ ~isUndefValue(getOperand(I, aux_argument_index(opcode)))

\* Lines 927-946 and 961: the bits of image_ops.
image_ops_of(opcode, I, num_coords) ==
    (IF opcode \in {SampleLevel, SampleCmpLevelZero} THEN {ImageOperandsLodMask}
     ELSE IF opcode = SampleBias THEN {ImageOperandsBiasMask}
     ELSE {})
    \cup (IF \E i \in 0..(num_coords - 1) : ~isUndefValue(getOperand(I, i + 7))
          THEN {ImageOperandsConstOffsetMask} ELSE {})
    \cup (IF has_min_lod(opcode, I) THEN {ImageOperandsMinLodMask} ELSE {})

\* The loop over the offset operands (lines 935-946): the ids of the int
\* constants, in order.
RECURSIVE sample_offsets(_, _, _)
sample_offsets(s, values, ids) ==
    IF values = << >> THEN R(s, ids)
    ELSE Bind(IF ~isUndefValue(Head(values)) THEN makeIntConstant(s, SExt32(Head(values)))
              ELSE makeIntConstant(s, Bits(0)), LAMBDA c :
             sample_offsets(c.s, Tail(values), Append(ids, c.id)))

\* Lines 953-968: aux_argument.
sample_aux(s, opcode, I) ==
    IF opcode \in {Sample, SampleCmp}
    THEN IF has_min_lod(opcode, I)
         THEN Bind(get_id_for_value(s, getOperand(I, aux_argument_index(opcode))), LAMBDA a :
                  R(addCapability(a.s, "MinLod"), a.id))
         ELSE R(s, 0)
    ELSE IF opcode # SampleCmpLevelZero
    THEN get_id_for_value(s, getOperand(I, aux_argument_index(opcode)))
    ELSE makeFloatConstant(s, 0)

\* Lines 972-993: op.op.
sample_op(opcode) ==
    CASE opcode = SampleLevel -> "OpImageSampleExplicitLod"
      [] opcode \in {Sample, SampleBias} -> "OpImageSampleImplicitLod"
      [] opcode = SampleCmp -> "OpImageSampleDrefImplicitLod"
      [] opcode = SampleCmpLevelZero -> "OpImageSampleDrefExplicitLod"
      [] OTHER -> "OpNop"

\* Lines 1013-1015: op.type_id.
sample_type(s, opcode, I) ==
    Bind(get_type_id(s, getStructElementType0(I.ty)), LAMBDA t :
        IF ~comparison_sampling(opcode) THEN makeVectorType(t.s, t.id, 4) ELSE t)

\* A faulty sample_arguments: the offset vector is put before the Lod or
\* Bias argument.
sample_arguments_offset_first(combined_image_sampler_id, coord, dref_id, image_ops, aux_argument, offset) ==
    <<combined_image_sampler_id, coord>>
    \o (IF dref_id # 0 THEN <<dref_id>> ELSE << >>)
    \o <<MaskLiteral(image_ops)>>
    \o (IF ImageOperandsConstOffsetMask \in image_ops THEN <<offset>> ELSE << >>)
    \o (IF image_ops \cap {ImageOperandsBiasMask, ImageOperandsLodMask} # {}
        THEN <<aux_argument>> ELSE << >>)
    \o (IF ImageOperandsMinLodMask \in image_ops THEN <<aux_argument>> ELSE << >>)

\* Lines 1017-1034: op.arguments.
sample_arguments(combined_image_sampler_id, coord, dref_id, image_ops, aux_argument, offset) ==
    <<combined_image_sampler_id, coord>>
    \o (IF dref_id # 0 THEN <<dref_id>> ELSE << >>)
    \o <<MaskLiteral(image_ops)>>
    \o (IF image_ops \cap {ImageOperandsBiasMask, ImageOperandsLodMask} # {}
        THEN <<aux_argument>> ELSE << >>)
    \o (IF ImageOperandsConstOffsetMask \in image_ops THEN <<offset>> ELSE << >>)
    \o (IF ImageOperandsMinLodMask \in image_ops THEN <<aux_argument>> ELSE << >>)

\* Line 1030: the offset vector, built only under the ConstOffset bit.
offset_vector(s, block, image_ops, offsets) ==
    IF ImageOperandsConstOffsetMask \in image_ops
    THEN Bind(makeIntegerType(s, 32, TRUE), LAMBDA i32 : build_vector(i32.s, block, i32.id, offsets))
    ELSE R(s, 0)

\* A faulty splat_comparison: the instruction is given the scalar's id and
\* no vector is built.
splat_comparison_alias(s, block, I, sampled_value_id) ==
    [s EXCEPT !.value_map = MapPut(@, I.self, sampled_value_id)]

\* Lines 1038-1046: the scalar of a comparison sample is splat to the
\* instruction's 4-vector.
splat_comparison(s, block, I, sampled_value_id) ==
    Bind(get_id_for_value(s, I.self), LAMBDA id :
    Bind(makeFloatType(id.s, 32), LAMBDA f :
    Bind(makeVectorType(f.s, f.id, 4), LAMBDA type_id :
        push_operation(type_id.s, block,
            Op("OpCompositeConstruct", id.id, type_id.id,
               <<sampled_value_id, sampled_value_id, sampled_value_id, sampled_value_id>>)))))

\* emit_sample_instruction from line 921 on.
sample_with_coords(s, block, I, opcode, combined_image_sampler_id, num_coords, arrayed) ==
    Bind(ids_for_values(s, [i \in 1..(IF arrayed THEN num_coords + 1 ELSE num_coords) |->
                                getOperand(I, i + 2)], << >>), LAMBDA coord :
    Bind(sample_offsets(coord.s, [i \in 1..num_coords |-> getOperand(I, i + 6)], << >>),
         LAMBDA offsets :
    Bind(IF opcode = SampleCmp THEN get_id_for_value(offsets.s, getOperand(I, 10))
         ELSE R(offsets.s, 0), LAMBDA dref_id :
    Bind(sample_aux(dref_id.s, opcode, I), LAMBDA aux_argument :
    Bind(IF comparison_sampling(opcode) THEN allocate_id(aux_argument.s)
         ELSE get_id_for_value(aux_argument.s, I.self), LAMBDA id :
    Bind(sample_type(id.s, opcode, I), LAMBDA type_id :
    Bind(makeFloatType(type_id.s, 32), LAMBDA f32 :
    Bind(build_vector(f32.s, block, f32.id, coord.id), LAMBDA coord_vector :
    Bind(offset_vector(coord_vector.s, block, image_ops_of(opcode, I, num_coords), offsets.id),
         LAMBDA offset :
    Bind(push_operation(offset.s, block,
             Op(sample_op(opcode), id.id, type_id.id,
                sample_arguments(combined_image_sampler_id, coord_vector.id, dref_id.id,
                                 image_ops_of(opcode, I, num_coords), aux_argument.id,
                                 offset.id))), LAMBDA s1 :
        IF comparison_sampling(opcode) THEN splat_comparison(s1, block, I, id.id)
        ELSE s1))))))))))

emit_sample_instruction(s, opcode, block, I) ==
    Bind(handle_read(s, getOperand(I, 1)), LAMBDA image_id :
    Bind(handle_read(image_id.s, getOperand(I, 2)), LAMBDA sampler_id :
    Bind(build_sampled_image(sampler_id.s, block, image_id.id, sampler_id.id,
                             comparison_sampling(opcode)), LAMBDA combined :
    Bind(get_type_id_of_id(combined.s, image_id.id), LAMBDA image_type_id :
        IF num_coords_of(getTypeDimensionality(combined.s, image_type_id)) = 0
        THEN LOGE(combined.s, "Unexpected sample dimensionality.")
        ELSE sample_with_coords(combined.s, block, I, opcode, combined.id,
                 num_coords_of(getTypeDimensionality(combined.s, image_type_id)),
                 isArrayedImageType(combined.s, image_type_id))))))

emit_builtin_instruction(s, block, I, garbage) ==
    LET opcode == get_constant_operand(I, 0) IN
    CASE opcode = LoadInput -> emit_load_input_instruction(s, block, I)
      [] opcode = StoreOutput -> emit_store_output_instruction(s, block, I)
      [] opcode = CreateHandle -> emit_create_handle_instruction(s, block, I, garbage)
      [] opcode = CBufferLoadLegacy -> emit_cbuffer_load_legacy_instruction(s, block, I)
      [] opcode \in {Sample, SampleBias, SampleLevel, SampleCmp, SampleCmpLevelZero} ->
             emit_sample_instruction(s, opcode, block, I)
      [] OTHER -> s

-----------------------------------------------------------------------------
(* Phi nodes.  bb_map maps a block to the index of its BlockMeta in metas; *)
(* operator[] on a block that is not a key inserts a null pointer (0), and *)
(* reading ->node through a null pointer is undefined behaviour.           *)

\* bb_map[bb]->node
meta_node(s, bb, garbage) ==
    IF bb \in DOMAIN s.bb_map /\ s.bb_map[bb] # 0
    THEN R(s, s.metas[s.bb_map[bb]].node)
    ELSE R([s EXCEPT !.bb_map = MapIndex(@, bb), !.ub = TRUE], garbage)

\* The loop of emit_phi_instruction from incoming pair i on.
RECURSIVE phi_incoming(_, _, _, _, _)
phi_incoming(s, I, i, incoming, garbage) ==
    IF i > Len(I.args) THEN R(s, incoming)
    ELSE Bind(meta_node(s, I.blocks[i], garbage), LAMBDA n :
         Bind(get_id_for_value(n.s, I.args[i]), LAMBDA v :
             phi_incoming(v.s, I, i + 1, Append(incoming, [block |-> n.id, id |-> v.id]),
                          garbage)))

emit_phi_instruction(s, block, I, garbage) ==
    Bind(get_id_for_value(s, I.self), LAMBDA id :
    Bind(get_type_id(id.s, I.ty), LAMBDA type_id :
    Bind(phi_incoming(type_id.s, I, 1, << >>, garbage), LAMBDA incoming :
        [incoming.s EXCEPT !.pool[block].phi =
             Append(@, [id |-> id.id, type_id |-> type_id.id, incoming |-> incoming.id])])))

-----------------------------------------------------------------------------
(* LLVM instructions.                                                      *)

\* The switch over the predicate (lines 1118-1223), "OpNop" for the default.
compare_op(predicate) ==
    CASE predicate = "FCMP_OEQ" -> "OpFOrdEqual"
      [] predicate = "FCMP_UEQ" -> "OpFUnordEqual"
      [] predicate = "FCMP_OGT" -> "OpFOrdGreaterThan"
      [] predicate = "FCMP_UGT" -> "OpFUnordGreaterThan"
      [] predicate = "FCMP_OGE" -> "OpFOrdGreaterThanEqual"
      [] predicate = "FCMP_UGE" -> "OpFUnordGreaterThanEqual"
      [] predicate = "FCMP_OLT" -> "OpFOrdLessThan"
      [] predicate = "FCMP_ULT" -> "OpFUnordLessThan"
      [] predicate = "FCMP_OLE" -> "OpFOrdLessThanEqual"
      [] predicate = "FCMP_ULE" -> "OpFUnordLessThanEqual"
      [] predicate = "FCMP_ONE" -> "OpFOrdNotEqual"
      [] predicate = "FCMP_UNE" -> "OpFUnordNotEqual"
      [] predicate \in {"FCMP_FALSE", "FCMP_TRUE"} -> "OpCopyLogical"
      [] predicate = "ICMP_EQ" -> "OpIEqual"
      [] predicate = "ICMP_NE" -> "OpINotEqual"
      [] predicate = "ICMP_SLT" -> "OpSLessThan"
      [] predicate = "ICMP_SLE" -> "OpSLessThanEqual"
      [] predicate = "ICMP_SGT" -> "OpSGreaterThan"
      [] predicate = "ICMP_SGE" -> "OpSGreaterThanEqual"
      [] predicate = "ICMP_ULT" -> "OpULessThan"
      [] predicate = "ICMP_ULE" -> "OpULessThanEqual"
      [] predicate = "ICMP_UGT" -> "OpUGreaterThan"
      [] predicate = "ICMP_UGE" -> "OpUGreaterThanEqual"
      [] OTHER -> "OpNop"

emit_compare_instruction(s, block, I) ==
    Bind(get_id_for_value(s, I.self), LAMBDA id :
    Bind(get_type_id(id.s, I.ty), LAMBDA type_id :
    Bind(ids_for_values(type_id.s, <<getOperand(I, 0), getOperand(I, 1)>>, << >>), LAMBDA a :
        IF I.op \in {"FCMP_FALSE", "FCMP_TRUE"}
        THEN Bind(makeBoolConstant(a.s, I.op = "FCMP_TRUE"), LAMBDA b :
                 push_operation(b.s, block, Op("OpCopyLogical", id.id, type_id.id, <<b.id>>)))
        ELSE IF compare_op(I.op) # "OpNop"
        THEN push_operation(a.s, block, Op(compare_op(I.op), id.id, type_id.id, a.id))
        ELSE push_operation(LOGE(a.s, "Unknown CmpInst predicate."), block,
                            Op("OpNop", id.id, type_id.id, a.id)))))

emit_extract_value_instruction(s, block, I) ==
    Bind(get_id_for_value(s, I.self), LAMBDA id :
    Bind(get_type_id(id.s, I.ty), LAMBDA type_id :
    Bind(get_id_for_value(type_id.s, getOperand(I, 0)), LAMBDA aggregate :
        push_operation(aggregate.s, block,
            Op("OpCompositeExtract", id.id, type_id.id, <<aggregate.id>> \o I.idx)))))

emit_alloca_instruction(s, block, I) ==
    Bind(get_type_id(s, getPointerElementType(I.ty)), LAMBDA pointee_type_id :
    Bind(createVariable(pointee_type_id.s, "Function", pointee_type_id.id), LAMBDA var_id :
        [var_id.s EXCEPT !.value_map = MapPut(@, I.self, var_id.id)]))

emit_select_instruction(s, block, I) ==
    Bind(get_id_for_value(s, I.self), LAMBDA id :
    Bind(get_type_id(id.s, I.ty), LAMBDA type_id :
    Bind(ids_for_values(type_id.s, <<getOperand(I, 0), getOperand(I, 1), getOperand(I, 2)>>,
                        << >>), LAMBDA a :
        push_operation(a.s, block, Op("OpSelect", id.id, type_id.id, a.id)))))

emit_load_instruction(s, block, I) ==
    Bind(get_id_for_value(s, I.self), LAMBDA id :
    Bind(get_type_id(id.s, I.ty), LAMBDA type_id :
    Bind(get_id_for_value(type_id.s, getOperand(I, 0)), LAMBDA ptr :
        push_operation(ptr.s, block, Op("OpLoad", id.id, type_id.id, <<ptr.id>>)))))

emit_store_instruction(s, block, I) ==
    Bind(ids_for_values(s, <<getOperand(I, 1), getOperand(I, 0)>>, << >>), LAMBDA a :
        push_operation(a.s, block, Op("OpStore", 0, 0, a.id)))

\* The operands of a getelementptr without operand 1 (the first index).
gep_operands(I) ==
    IF Len(I.args) < 2 THEN I.args
    ELSE [k \in 1..(Len(I.args) - 1) |-> IF k = 1 THEN I.args[1] ELSE I.args[k + 1]]

emit_getelementptr_instruction(s, block, I) ==
    Bind(get_id_for_value(s, I.self), LAMBDA id :
    Bind(get_type_id(id.s, I.ty), LAMBDA type_id :
    Bind(ids_for_values(type_id.s, gep_operands(I), << >>), LAMBDA a :
        push_operation(a.s, block,
            Op(IF I.op = "inbounds" THEN "OpInBoundsAccessChain" ELSE "OpAccessChain",
               id.id, type_id.id, a.id)))))

\* The switch over the cast opcode (lines 1329-1368), "OpNop" for the default.
cast_op(opcode) ==
    CASE opcode = "BitCast" -> "OpBitcast"
      [] opcode = "SExt" -> "OpSConvert"
      [] opcode \in {"Trunc", "ZExt"} -> "OpUConvert"
      [] opcode \in {"FPTrunc", "FPExt"} -> "OpFConvert"
      [] opcode = "FPToUI" -> "OpConvertFToU"
      [] opcode = "FPToSI" -> "OpConvertFToS"
      [] opcode = "SIToFP" -> "OpConvertSToF"
      [] opcode = "UIToFP" -> "OpConvertUToF"
      [] OTHER -> "OpNop"

emit_cast_instruction(s, block, I) ==
    Bind(get_id_for_value(s, I.self), LAMBDA id :
    Bind(get_type_id(id.s, I.ty), LAMBDA type_id :
    Bind(get_id_for_value(type_id.s, getOperand(I, 0)), LAMBDA a :
        IF cast_op(I.op) = "OpNop" THEN LOGE(a.s, "Unknown cast operation.")
        ELSE push_operation(a.s, block, Op(cast_op(I.op), id.id, type_id.id, <<a.id>>)))))

emit_unary_instruction(s, block, I) ==
    Bind(get_id_for_value(s, I.self), LAMBDA id :
    Bind(get_type_id(id.s, I.ty), LAMBDA type_id :
    Bind(get_id_for_value(type_id.s, getOperand(I, 0)), LAMBDA a :
        IF I.op = "FNeg"
        THEN push_operation(a.s, block, Op("OpFNegate", id.id, type_id.id, <<a.id>>))
        ELSE LOGE(a.s, "Unknown unary operator."))))

\* The switch over the binary opcode (lines 1405-1483), "OpNop" for the default.
binary_op(opcode) ==
    CASE opcode = "FAdd" -> "OpFAdd" [] opcode = "FSub" -> "OpFSub"
      [] opcode = "FMul" -> "OpFMul" [] opcode = "FDiv" -> "OpFDiv"
      [] opcode = "Add" -> "OpIAdd" [] opcode = "Sub" -> "OpISub"
      [] opcode = "Mul" -> "OpIMul" [] opcode = "SDiv" -> "OpSDiv"
      [] opcode = "UDiv" -> "OpUDiv" [] opcode = "Shl" -> "OpShiftLeftLogical"
      [] opcode = "LShr" -> "OpShiftRightLogical"
      [] opcode = "AShr" -> "OpShiftRightArithmetic"
      [] opcode = "SRem" -> "OpSRem" [] opcode = "FRem" -> "OpFRem"
      [] opcode = "URem" -> "OpUMod" [] opcode = "Xor" -> "OpBitwiseXor"
      [] opcode = "And" -> "OpBitwiseAnd" [] opcode = "Or" -> "OpBitwiseOr"
      [] OTHER -> "OpNop"

emit_binary_instruction(s, block, I) ==
    Bind(get_id_for_value(s, I.self), LAMBDA id :
    Bind(get_type_id(id.s, I.ty), LAMBDA type_id :
    Bind(ids_for_values(type_id.s, <<getOperand(I, 0), getOperand(I, 1)>>, << >>), LAMBDA a :
        push_operation(IF binary_op(I.op) = "OpNop" THEN LOGE(a.s, "Unknown binary operator.")
                       ELSE a.s,
                       block, Op(binary_op(I.op), id.id, type_id.id, a.id)))))

\* The name of a called function is <<its first five characters, the rest>>.
emit_instruction(s, block, I, garbage) ==
    CASE I.kind = "call" ->
             IF I.op[1] = "dx.op" THEN emit_builtin_instruction(s, block, I, garbage)
             ELSE LOGE(s, "Normal function call ...")
      [] I.kind = "binary" -> emit_binary_instruction(s, block, I)
      [] I.kind = "unary" -> emit_unary_instruction(s, block, I)
      [] I.kind = "cast" -> emit_cast_instruction(s, block, I)
      [] I.kind = "getelementptr" -> emit_getelementptr_instruction(s, block, I)
      [] I.kind = "load" -> emit_load_instruction(s, block, I)
      [] I.kind = "store" -> emit_store_instruction(s, block, I)
      [] I.kind = "cmp" -> emit_compare_instruction(s, block, I)
      [] I.kind = "extractvalue" -> emit_extract_value_instruction(s, block, I)
      [] I.kind = "alloca" -> emit_alloca_instruction(s, block, I)
      [] I.kind = "select" -> emit_select_instruction(s, block, I)
      [] I.kind = "phi" -> emit_phi_instruction(s, block, I, garbage)
      [] OTHER -> s

-----------------------------------------------------------------------------
(* convert_entry_point.  A basic block of the entry function is a record   *)
(* [name, insts, term]: insts its instructions before the terminator, term *)
(* the terminator [kind, cond, succ, casevals, hasval, retval]; succ lists *)
(* the successors in LLVM's order (br: true, false; switch: default, then  *)
(* the case targets).  Block 1 is the entry block.  A name is a sequence   *)
(* of pieces, += appends a piece.                                          *)

\* The model of a tag (lines 408-420).
execution_model_of(model) ==
    CASE model = "vs" -> "ExecutionModelVertex"
      [] model = "ps" -> "ExecutionModelFragment"
      [] model = "hs" -> "ExecutionModelTessellationControl"
      [] model = "ds" -> "ExecutionModelTessellationEvaluation"
      [] model = "gs" -> "ExecutionModelGeometry"
      [] model = "cs" -> "ExecutionModelGLCompute"
      [] OTHER -> "ExecutionModelMax"

\* What the tag read through a null dx.shaderModel node may compare equal to.
GarbageTag(garbage) == IF garbage = 0 THEN "" ELSE "vs"

\* get_execution_model(module): getNamedMetadata returns null when the
\* module has no dx.shaderModel, and the read through it is undefined.
get_execution_model(s, m, garbage) ==
    IF m.has_shader_model THEN R(s, execution_model_of(m.shader_model))
    ELSE R([s EXCEPT !.ub = TRUE], execution_model_of(GarbageTag(garbage)))

\* SPIRVModule::emit_entry_point(model, name)
emit_entry_point(s, model, name) ==
    [s EXCEPT !.entry_point = [model |-> model, name |-> name, interface |-> << >>]]

\* A new BlockMeta for bb with a new node of the given name, registered in
\* bb_map (lines 1565-1571 and 1591-1596).
register_block(s, bb, name) ==
    Bind(create_node(s, name), LAMBDA node :
        R([node.s EXCEPT !.bb_map = MapPut(@, bb, Len(s.metas) + 1),
                         !.metas = Append(@, [bb |-> bb, node |-> node.id])],
          node.id))

\* Lines 1564-1575: the entry block's meta and node; to_process = {entry}.
create_entry_node(s, m) ==
    Bind(register_block(s, 1, m.blocks[1].name \o <<".entry">>), LAMBDA entry :
        [entry.s EXCEPT !.result_entry = entry.id, !.to_process = Append(@, 1)])

\* Lines 1561-1575.  get_entry_point_name reads through the dx.entryPoints
\* node, null when the module has none: the read is undefined, and the name
\* it yields may or may not be that of a function (garbage).  When no
\* function has the name, func is null: assert(func) aborts where
\* assertions are compiled in, and elsewhere the read of the entry block
\* through the null Function is undefined and has no block to go on with.
find_entry_function(s, m, garbage, assertions) ==
    Bind(IF m.has_entry_points THEN s ELSE [s EXCEPT !.ub = TRUE], LAMBDA s1 :
        IF m.has_entry_function /\ (m.has_entry_points \/ garbage = 1)
        THEN [create_entry_node(s1, m) EXCEPT !.pc = "discover"]
        ELSE IF assertions THEN [s1 EXCEPT !.pc = "aborted"]
        ELSE [s1 EXCEPT !.ub = TRUE, !.pc = "crashed"])

\* A faulty walk over the successors: it stops after the first.
successors_first_only(m, block) ==
    IF m.blocks[block].term.succ = << >> THEN << >> ELSE <<m.blocks[block].term.succ[1]>>

\* llvm::succ_begin(block) .. llvm::succ_end(block)
successors(m, block) == m.blocks[block].term.succ

\* A faulty discover_successor: the successor is queued also when it is
\* registered already.
discover_successor_requeue(s, m, block, succ, garbage) ==
    Bind([(IF succ \notin DOMAIN s.bb_map
           THEN register_block(s, succ, m.blocks[succ].name).s ELSE s)
            EXCEPT !.to_process = Append(@, succ)], LAMBDA s1 :
    Bind(meta_node(s1, block, garbage), LAMBDA from :
    Bind(meta_node(from.s, succ, garbage), LAMBDA to :
        add_branch(to.s, from.id, to.id))))

\* A faulty discover_successor: the edge is added only to a block met for
\* the first time.
discover_successor_new_only(s, m, block, succ, garbage) ==
    IF succ \in DOMAIN s.bb_map THEN s
    ELSE Bind([register_block(s, succ, m.blocks[succ].name).s
                 EXCEPT !.to_process = Append(@, succ)], LAMBDA s1 :
         Bind(meta_node(s1, block, garbage), LAMBDA from :
         Bind(meta_node(from.s, succ, garbage), LAMBDA to :
             add_branch(to.s, from.id, to.id))))

\* The body of the loop over the successors (lines 1587-1599).
discover_successor(s, m, block, succ, garbage) ==
    Bind(IF succ \notin DOMAIN s.bb_map
         THEN [register_block(s, succ, m.blocks[succ].name).s
                 EXCEPT !.to_process = Append(@, succ)]
         ELSE s, LAMBDA s1 :
    Bind(meta_node(s1, block, garbage), LAMBDA from :
    Bind(meta_node(from.s, succ, garbage), LAMBDA to :
        add_branch(to.s, from.id, to.id))))

RECURSIVE discover_successors(_, _, _, _, _)
discover_successors(s, m, block, i, garbage) ==
    IF i > Len(successors(m, block)) THEN s
    ELSE discover_successors(discover_successor(s, m, block, successors(m, block)[i], garbage),
                             m, block, i + 1, garbage)

\* One iteration of the loop over processing (lines 1582-1601); processing
\* holds the blocks of the current pass that are still to be visited.
discover_block(s, m, garbage) ==
    discover_successors([s EXCEPT !.visit_order = Append(@, Head(s.processing)),
                                  !.processing = Tail(@)],
                        m, Head(s.processing), 1, garbage)

-----------------------------------------------------------------------------
(* Terminators (lines 1613-1655).                                          *)

isConditional(term) == Len(term.succ) = 2

lower_branch(s, node, term, garbage) ==
    IF isConditional(term)
    THEN Bind(get_id_for_value(s, term.cond), LAMBDA c :
         Bind(meta_node(c.s, term.succ[1], garbage), LAMBDA t :
         Bind(meta_node(t.s, term.succ[2], garbage), LAMBDA f :
             [f.s EXCEPT !.pool[node].terminator.type = "Condition",
                         !.pool[node].terminator.conditional_id = c.id,
                         !.pool[node].terminator.true_block = t.id,
                         !.pool[node].terminator.false_block = f.id])))
    ELSE Bind(meta_node(s, term.succ[1], garbage), LAMBDA d :
             [d.s EXCEPT !.pool[node].terminator.type = "Branch",
                         !.pool[node].terminator.direct_block = d.id])

\* A faulty switch_case_value: the case value is not cut to 32 bits.
switch_case_value_wide(c) == getZExtValue(c)

\* uint32_t(itr->getCaseValue()->getUniqueInteger().getZExtValue())
switch_case_value(c) == U32(getZExtValue(c))

\* The loop over the cases from case i on.
RECURSIVE switch_cases(_, _, _, _, _)
switch_cases(s, node, term, i, garbage) ==
    IF i > Len(term.casevals) THEN s
    ELSE Bind(meta_node(s, term.succ[i + 1], garbage), LAMBDA n :
             switch_cases([n.s EXCEPT !.pool[node].terminator.cases =
                               Append(@, [node |-> n.id,
                                          value |-> switch_case_value(term.casevals[i])])],
                          node, term, i + 1, garbage))

lower_switch(s, node, term, garbage) ==
    Bind(meta_node(s, term.succ[1], garbage), LAMBDA d :
    Bind(get_id_for_value(d.s, term.cond), LAMBDA c :
        switch_cases([c.s EXCEPT !.pool[node].terminator.type = "Switch",
                                 !.pool[node].terminator.default_node = d.id,
                                 !.pool[node].terminator.conditional_id = c.id],
                     node, term, 1, garbage)))

\* A faulty lower_return: the terminator is left as it is.
lower_return_none(s, node, term) == s

lower_return(s, node, term) ==
    IF term.hasval
    THEN Bind(get_id_for_value(s, term.retval), LAMBDA v :
             [v.s EXCEPT !.pool[node].terminator.type = "Return",
                         !.pool[node].terminator.return_value = v.id])
    ELSE [s EXCEPT !.pool[node].terminator.type = "Return"]

lower_unreachable(s, node, term) == [s EXCEPT !.pool[node].terminator.type = "Unreachable"]

lower_terminator(s, node, term, garbage) ==
    CASE term.kind = "br" -> lower_branch(s, node, term, garbage)
      [] term.kind = "switch" -> lower_switch(s, node, term, garbage)
      [] term.kind = "ret" -> lower_return(s, node, term)
      [] term.kind = "unreachable" -> lower_unreachable(s, node, term)
      [] OTHER -> LOGE(s, "Unsupported terminator ...")

-----------------------------------------------------------------------------
(* The state machine.                                                      *)

\* The members of Impl and the locals of convert_entry_point, as one record.
Cur ==
    [pc |-> pc, defs |-> defs, capabilities |-> capabilities, decorations |-> decorations,
     entry_point |-> entry_point,
     srv_index_to_id |-> srv_index_to_id, uav_index_to_id |-> uav_index_to_id,
     cbv_index_to_id |-> cbv_index_to_id, sampler_index_to_id |-> sampler_index_to_id,
     handle_to_ptr_id |-> handle_to_ptr_id, id_to_type |-> id_to_type,
     value_map |-> value_map,
     input_elements_ids |-> input_elements_ids, output_elements_ids |-> output_elements_ids,
     metas |-> metas, bb_map |-> bb_map, pool |-> pool,
     to_process |-> to_process, processing |-> processing, visit_order |-> visit_order,
     result_entry |-> result_entry, bbi |-> bbi, ii |-> ii, ub |-> ub, log |-> log]

\* The next state is the record s; the module is never written.
Commit(s) ==
    /\ module' = module
    /\ pc' = s.pc
    /\ defs' = s.defs
    /\ capabilities' = s.capabilities
    /\ decorations' = s.decorations
    /\ entry_point' = s.entry_point
    /\ srv_index_to_id' = s.srv_index_to_id
    /\ uav_index_to_id' = s.uav_index_to_id
    /\ cbv_index_to_id' = s.cbv_index_to_id
    /\ sampler_index_to_id' = s.sampler_index_to_id
    /\ handle_to_ptr_id' = s.handle_to_ptr_id
    /\ id_to_type' = s.id_to_type
    /\ value_map' = s.value_map
    /\ input_elements_ids' = s.input_elements_ids
    /\ output_elements_ids' = s.output_elements_ids
    /\ metas' = s.metas
    /\ bb_map' = s.bb_map
    /\ pool' = s.pool
    /\ to_process' = s.to_process
    /\ processing' = s.processing
    /\ visit_order' = s.visit_order
    /\ result_entry' = s.result_entry
    /\ bbi' = s.bbi
    /\ ii' = s.ii
    /\ ub' = s.ub
    /\ log' = s.log

\* What a read through a wild pointer or outside a vector may yield.
Garbage == {0, 1}

\* The state after construction of the converter on the module m.
Constructed(m) ==
    /\ module = m
    /\ pc = "entry_point"
    /\ defs = << >>
    /\ capabilities = {}
    /\ decorations = << >>
    /\ entry_point = [model |-> "none", name |-> "", interface |-> << >>]
    /\ srv_index_to_id = << >>
    /\ uav_index_to_id = << >>
    /\ cbv_index_to_id = << >>
    /\ sampler_index_to_id = << >>
    /\ handle_to_ptr_id = EmptyMap
    /\ id_to_type = EmptyMap
    /\ value_map = EmptyMap
    /\ input_elements_ids = EmptyMap
    /\ output_elements_ids = EmptyMap
    /\ metas = << >>
    /\ bb_map = EmptyMap
    /\ pool = << >>
    /\ to_process = << >>
    /\ processing = << >>
    /\ visit_order = << >>
    /\ result_entry = 0
    /\ bbi = 0
    /\ ii = 0
    /\ ub = FALSE
    /\ log = << >>

\* The state after a step that may have executed undefined behaviour: the
\* run may have crashed instead, and the mark is kept.
after_step(s0, s1, crash) ==
    IF s1.ub /\ crash THEN [s0 EXCEPT !.pc = "crashed", !.ub = TRUE]
    ELSE [s1 EXCEPT !.ub = s0.ub \/ s1.ub]

\* Line 1555.
EmitEntryPoint ==
    /\ pc = "entry_point"
    /\ \E garbage \in Garbage, crash \in BOOLEAN :
         Commit(after_step(Cur,
                Bind(get_execution_model([Cur EXCEPT !.ub = FALSE], module, garbage),
                     LAMBDA model :
                         [emit_entry_point(model.s, model.id, "main") EXCEPT !.pc = "resources"]),
                crash))

\* Line 1557.
EmitResources ==
    /\ pc = "resources"
    /\ Commit([emit_resources(Cur, module) EXCEPT !.pc = "stage_inputs"])

\* Line 1558.
EmitStageInputs ==
    /\ pc = "stage_inputs"
    /\ \E crash \in BOOLEAN :
         Commit(after_step(Cur,
                [emit_stage_input_variables([Cur EXCEPT !.ub = FALSE], module)
                   EXCEPT !.pc = "stage_outputs"],
                crash))

\* Line 1559.
EmitStageOutputs ==
    /\ pc = "stage_outputs"
    /\ \E crash \in BOOLEAN :
         Commit(after_step(Cur,
                [emit_stage_output_variables([Cur EXCEPT !.ub = FALSE], module)
                   EXCEPT !.pc = "entry_node"],
                crash))

\* Lines 1561-1576.
CreateEntryNode ==
    /\ pc = "entry_node"
    /\ \E garbage \in Garbage, assertions \in BOOLEAN, crash \in BOOLEAN :
         Commit(after_step(Cur,
                find_entry_function([Cur EXCEPT !.ub = FALSE], module, garbage, assertions),
                crash))

\* Line 1581: a new pass of the discovery loop.
BeginPass ==
    /\ pc = "discover"
    /\ processing = << >>
    /\ to_process # << >>
    /\ Commit([Cur EXCEPT !.processing = to_process, !.to_process = processing])

\* Lines 1582-1601 for one block of the pass.
DiscoverBlock ==
    /\ pc = "discover"
    /\ processing # << >>
    /\ \E garbage \in Garbage : Commit(discover_block(Cur, module, garbage))

\* Line 1579 when to_process is empty: the lowering loop starts.
EndDiscovery ==
    /\ pc = "discover"
    /\ processing = << >>
    /\ to_process = << >>
    /\ Commit([Cur EXCEPT !.pc = "lower", !.bbi = 1, !.ii = 1])

\* Line 1607 and lines 1610-1611 for one instruction of block bb.
lower_instruction(s, m, bb, garbage) ==
    Bind(meta_node(s, bb, garbage), LAMBDA node :
        emit_instruction([node.s EXCEPT !.ii = @ + 1], node.id, m.blocks[bb].insts[s.ii],
                         garbage))

\* Lines 1613-1655 for block bb (its terminator is no case of
\* emit_instruction), then the next block or the return.
lower_block_end(s, m, bb, garbage) ==
    Bind(meta_node(s, bb, garbage), LAMBDA node :
        lower_terminator([node.s EXCEPT !.pc = IF s.bbi = Len(s.visit_order) THEN "done"
                                                 ELSE "lower",
                                        !.bbi = @ + 1, !.ii = 1],
                         node.id, m.blocks[bb].term, garbage))

\* One instruction of the block visit_order[bbi].
EmitInstruction ==
    /\ pc = "lower"
    /\ ii <= Len(module.blocks[visit_order[bbi]].insts)
    /\ \E garbage \in Garbage, crash \in BOOLEAN :
         Commit(after_step(Cur,
                           lower_instruction([Cur EXCEPT !.ub = FALSE], module,
                                             visit_order[bbi], garbage),
                           crash))

\* The terminator of the block visit_order[bbi].
LowerTerminator ==
    /\ pc = "lower"
    /\ ii > Len(module.blocks[visit_order[bbi]].insts)
    /\ \E garbage \in Garbage :
         Commit(lower_block_end(Cur, module, visit_order[bbi], garbage))

Next ==
    \/ EmitEntryPoint
    \/ EmitResources
    \/ EmitStageInputs
    \/ EmitStageOutputs
    \/ CreateEntryNode
    \/ BeginPass
    \/ DiscoverBlock
    \/ EndDiscovery
    \/ EmitInstruction
    \/ LowerTerminator

-----------------------------------------------------------------------------
(* Input modules.                                                          *)

Instruction(self, kind, op, args) ==
    [self |-> self, kind |-> kind, ty |-> TypeOf(self), op |-> op, args |-> args,
     blocks |-> << >>, idx |-> << >>]

\* %self = phi ty [args[1], blocks[1]], ...
PhiNode(self, args, blocks) ==
    [self |-> self, kind |-> "phi", ty |-> TypeOf(self), op |-> "phi", args |-> args,
     blocks |-> blocks, idx |-> << >>]

ExtractValue(self, agg, idx) ==
    [self |-> self, kind |-> "extractvalue", ty |-> TypeOf(self), op |-> "extractvalue",
     args |-> <<agg>>, blocks |-> << >>, idx |-> idx]

\* %self = call @dx.op...(i32 opcode, args)
DxOp(self, opcode, args) ==
    Instruction(self, "call", <<"dx.op", "">>, <<CInt("i32", opcode)>> \o args)

Terminator(kind, cond, succ, casevals) ==
    [kind |-> kind, cond |-> cond, succ |-> succ, casevals |-> casevals,
     hasval |-> FALSE, retval |-> Undef("void")]

Br(t) == Terminator("br", Undef("i1"), <<t>>, << >>)
CondBr(c, t, f) == Terminator("br", c, <<t, f>>, << >>)
Switch(c, d, casevals, targets) == Terminator("switch", c, <<d>> \o targets, casevals)
RetVoid == Terminator("ret", Undef("i1"), << >>, << >>)
RetValue(v) == [RetVoid EXCEPT !.hasval = TRUE, !.retval = v]
Unreachable == Terminator("unreachable", Undef("i1"), << >>, << >>)
Resume == Terminator("resume", Undef("i1"), << >>, << >>)
IndirectBr(t) == Terminator("indirectbr", Undef("i1"), <<t>>, << >>)

BlockName(b) == <<"bb", b>>

Block(b, insts, term) == [name |-> BlockName(b), insts |-> insts, term |-> term]

\* A pixel shader without resources and without signature elements.
PlainModule(blocks) ==
    [has_entry_points |-> TRUE, has_shader_model |-> TRUE, has_entry_function |-> TRUE,
     shader_model |-> "ps", has_resources |-> FALSE,
     srvs |-> << >>, uavs |-> << >>, cbvs |-> << >>, samplers |-> << >>,
     inputs |-> << >>, outputs |-> << >>, blocks |-> blocks]

Blocks == 1..NumBlocks

\* %1 = icmp eq i32 0, 1 ; %2 = add i32 1, 2
EntryInsts ==
    << Instruction(Inst("i1", 1, 1), "cmp", "ICMP_EQ", <<CInt("i32", 0), CInt("i32", 1)>>),
       Instruction(Inst("i32", 1, 2), "binary", "Add", <<CInt("i32", 1), CInt("i32", 2)>>) >>

\* Control-flow graphs of every shape over the blocks: each block ends in
\* a branch, a conditional branch, a one-case switch, a return, an
\* unreachable, or a terminator the converter has no case for.
CFGTerms ==
    {Br(t) : t \in Blocks}
    \cup {CondBr(Inst("i1", 1, 1), t, f) : t \in Blocks, f \in Blocks}
    \cup {Switch(Inst("i32", 1, 2), d, <<CInt("i32", 1)>>, <<t>>) : d \in Blocks, t \in Blocks}
    \cup {IndirectBr(t) : t \in Blocks}
    \cup {RetVoid, Unreachable, Resume}

InitCFG ==
    \E T \in [Blocks -> CFGTerms] :
        Constructed(PlainModule([b \in Blocks |->
            Block(b, IF b = 1 THEN EntryInsts ELSE << >>, T[b])]))

SpecCFG == InitCFG /\ [][Next]_vars

\* Control-flow graphs of every shape whose blocks end in a branch, a
\* conditional branch or a return.
FlowTerms ==
    {Br(t) : t \in Blocks}
    \cup {CondBr(Inst("i1", 1, 1), t, f) : t \in Blocks, f \in Blocks}
    \cup {RetVoid}

InitFlow ==
    \E T \in [Blocks -> FlowTerms] :
        Constructed(PlainModule([b \in Blocks |->
            Block(b, IF b = 1 THEN <<EntryInsts[1]>> ELSE << >>, T[b])]))

\* convert_entry_point is one sequential call: while a step is possible the
\* next step is taken.
SpecFlow == InitFlow /\ [][Next]_vars /\ WF_vars(Next)

-----------------------------------------------------------------------------
(* Switches: block 1 ends in a switch over an i64 with up to MaxCases      *)
(* cases of distinct values, some of them above 2^32.                      *)

\* The functions of [1..n -> S], n up to max, that take no value twice.
DistinctLists(S, max) ==
    UNION {{l \in [1..n -> S] : \A i, j \in 1..n : l[i] = l[j] => i = j} : n \in 0..max}

CaseConstants == {CIntBits("i64", 0, 0), CIntBits("i64", 0, 1), CIntBits("i64", Limb, 1)}

SwitchTerms ==
    {Switch(c, d, casevals, targets) :
        c \in {Inst("i64", 1, 1), CIntBits("i64", 0, 3)},
        d \in Blocks,
        casevals \in DistinctLists(CaseConstants, MaxCases),
        targets \in UNION {[1..n -> Blocks] : n \in 0..MaxCases}}

\* %1 = add i64 1, 2
SwitchEntryInsts ==
    << Instruction(Inst("i64", 1, 1), "binary", "Add", <<CInt("i64", 1), CInt("i64", 2)>>) >>

InitSwitch ==
    \E sw \in SwitchTerms, T \in [Blocks \ {1} -> {RetVoid, Br(1)}] :
        /\ Len(sw.casevals) + 1 = Len(sw.succ)
        /\ Constructed(PlainModule([b \in Blocks |->
               IF b = 1 THEN Block(1, SwitchEntryInsts, sw) ELSE Block(b, << >>, T[b])]))

SpecSwitch == InitSwitch /\ [][Next]_vars

-----------------------------------------------------------------------------
(* Resources: the four lists of dx.resources, each with up to MaxResources *)
(* entries whose indices are distinct, in any order; the entry block       *)
(* creates a handle for SRV 0.                                             *)

IndexLists == DistinctLists(0..(MaxResources - 1), MaxResources)

SrvEntry(i, position) ==
    [index |-> i, kind |-> IF i % 2 = 0 THEN "Texture2D" ELSE "TypedBuffer",
     tag0 |-> i % 2, comp |-> "F32", bind_space |-> 0, bind_register |-> position]
UavEntry(i, position) ==
    [index |-> i, kind |-> "TypedBuffer", tag0 |-> 0, comp |-> "F32",
     bind_space |-> 1, bind_register |-> position]
CbvEntry(i, position) ==
    [index |-> i, size |-> Bits(16 * i + 20), bind_space |-> 2, bind_register |-> position]
SamplerEntry(i, position) == [index |-> i, bind_space |-> 3, bind_register |-> position]

\* %self = call %dx.types.Handle @dx.op.createHandle(i32 57, i8 class, i32 range, i32 0, i1 0)
CreateHandleInst(b, i, class, range) ==
    DxOp(Inst("%dx.types.Handle", b, i), CreateHandle,
         <<CInt("i8", class), CInt("i32", range), CInt("i32", 0), CInt("i1", 0)>>)

ResourceModule(srvs, uavs, cbvs, samplers, blocks) ==
    [has_entry_points |-> TRUE, has_shader_model |-> TRUE, has_entry_function |-> TRUE,
     shader_model |-> "ps", has_resources |-> TRUE,
     srvs |-> srvs, uavs |-> uavs, cbvs |-> cbvs, samplers |-> samplers,
     inputs |-> << >>, outputs |-> << >>, blocks |-> blocks]

InitRes ==
    \E srv \in IndexLists, uav \in IndexLists, cbv \in IndexLists, smp \in IndexLists :
        Constructed(ResourceModule(
            [k \in DOMAIN srv |-> SrvEntry(srv[k], k)],
            [k \in DOMAIN uav |-> UavEntry(uav[k], k)],
            [k \in DOMAIN cbv |-> CbvEntry(cbv[k], k)],
            [k \in DOMAIN smp |-> SamplerEntry(smp[k], k)],
            << Block(1, <<CreateHandleInst(1, 1, 0, 0)>>, RetVoid) >>))

SpecRes == InitRes /\ [][Next]_vars

-----------------------------------------------------------------------------
(* Sampling: one texture of every kind, one sampler, and one sample        *)
(* intrinsic of every opcode with every mix of undef, zero and non-zero    *)
(* offset operands, with and without its optional clamp.                   *)

TextureKinds ==
    {"Texture1D", "Texture1DArray", "Texture2D", "Texture2DArray", "Texture3D",
     "TextureCube", "TextureCubeArray", "TypedBuffer", "Invalid"}

OffsetOperands == {Undef("i32"), CInt("i32", 0), CInt("i32", 1)}
ClampOperands == {Undef("float"), CFP("float", 5)}

SampleOpcodes == {Sample, SampleBias, SampleLevel, SampleCmp, SampleCmpLevelZero}

\* The operands after the three offsets: Sample(clamp), SampleBias(bias,
\* clamp), SampleLevel(lod), SampleCmp(compare, clamp), SampleCmpLevelZero(compare).
SampleTailsOf(opcode) ==
    CASE opcode = Sample -> {<<c>> : c \in ClampOperands}
      [] opcode = SampleBias -> {<<CFP("float", 6), c>> : c \in ClampOperands}
      [] opcode = SampleLevel -> {<<CFP("float", 7)>>}
      [] opcode = SampleCmp -> {<<CFP("float", 8), c>> : c \in ClampOperands}
      [] OTHER -> {<<CFP("float", 8)>>}

\* %3 = call %dx.types.ResRet.f32 @dx.op.sample*(i32 opcode, %1, %2, 1.0, 2.0, 3.0, 4.0, offsets, tail)
SampleInst(opcode, offsets, tail) ==
    DxOp(Inst("%dx.types.ResRet.f32", 1, 3), opcode,
         <<Inst("%dx.types.Handle", 1, 1), Inst("%dx.types.Handle", 1, 2),
           CFP("float", 1), CFP("float", 2), CFP("float", 3), CFP("float", 4)>>
         \o offsets \o tail)

InitSample ==
    \E kind \in TextureKinds, opcode \in SampleOpcodes, offsets \in [1..3 -> OffsetOperands] :
      \E tail \in SampleTailsOf(opcode) :
        Constructed(ResourceModule(
            << [index |-> 0, kind |-> kind, tag0 |-> 0, comp |-> "F32",
                bind_space |-> 0, bind_register |-> 0] >>,
            << >>, << >>,
            << SamplerEntry(0, 0) >>,
            << Block(1, << CreateHandleInst(1, 1, 0, 0), CreateHandleInst(1, 2, 3, 0),
                           SampleInst(opcode, offsets, tail) >>, RetVoid) >>))

SpecSample == InitSample /\ [][Next]_vars

-----------------------------------------------------------------------------
(* Instructions: a loop whose body holds one instruction of every kind and *)
(* result type, with or without a phi that names the instruction before   *)
(* it is lowered, and with or without a predecessor of the loop that no    *)
(* path from the entry reaches.                                            *)
(*   1: %1 = icmp, %2 = alloca float, %3 = alloca [4 x float]; br 2        *)
(*   2: [phi [undef, 1], [T, 2], [undef, 4]]; T; br %1, 2, 3               *)
(*   3: ret void                                                           *)
(*   4: br 2                                                               *)

LoopCond == Inst("i1", 1, 1)
LoopPtr == Inst("float*", 1, 2)
LoopArr == Inst("[4 x float]*", 1, 3)

LoopEntryInsts ==
    << Instruction(LoopCond, "cmp", "ICMP_EQ", <<CInt("i32", 0), CInt("i32", 1)>>),
       Instruction(LoopPtr, "alloca", "alloca", <<CInt("i32", 1)>>),
       Instruction(LoopArr, "alloca", "alloca", <<CInt("i32", 1)>>) >>

\* The instructions under test, as instruction i of block 2.
TestInstructions(i) ==
    {Instruction(Inst("float", 2, i), "binary", "FAdd", <<CFP("float", 1), CFP("float", 2)>>),
     Instruction(Inst("i32", 2, i), "binary", "Add", <<CInt("i32", 1), CInt("i32", 2)>>),
     Instruction(Inst("i64", 2, i), "binary", "Mul", <<CInt("i64", 1), CInt("i64", 2)>>),
     Instruction(Inst("<4 x float>", 2, i), "binary", "FMul",
                 <<Undef("<4 x float>"), Undef("<4 x float>")>>),
     Instruction(Inst("float", 2, i), "unary", "FNeg", <<CFP("float", 1)>>),
     Instruction(Inst("i32", 2, i), "cast", "BitCast", <<CFP("float", 1)>>),
     Instruction(Inst("i64", 2, i), "cast", "PtrToInt", <<LoopPtr>>),
     Instruction(Inst("i1", 2, i), "cmp", "FCMP_OLT", <<CFP("float", 1), CFP("float", 2)>>),
     Instruction(Inst("i1", 2, i), "cmp", "FCMP_TRUE", <<CFP("float", 1), CFP("float", 2)>>),
     Instruction(Inst("i1", 2, i), "cmp", "FCMP_ORD", <<CFP("float", 1), CFP("float", 2)>>),
     ExtractValue(Inst("float", 2, i), Undef("%dx.types.ResRet.f32"), <<0>>),
     Instruction(Inst("float", 2, i), "select", "select",
                 <<LoopCond, CFP("float", 1), CFP("float", 2)>>),
     Instruction(Inst("%struct.S", 2, i), "select", "select",
                 <<LoopCond, Undef("%struct.S"), Undef("%struct.S")>>),
     Instruction(Inst("float", 2, i), "load", "load", <<LoopPtr>>),
     Instruction(Inst("void", 2, i), "store", "store", <<CFP("float", 1), LoopPtr>>),
     Instruction(Inst("float*", 2, i), "getelementptr", "inbounds",
                 <<LoopArr, CInt("i32", 0), CInt("i32", 1)>>),
     Instruction(Inst("float*", 2, i), "getelementptr", "plain",
                 <<LoopArr, CInt("i32", 0), CInt("i32", 2)>>),
     Instruction(Inst("float*", 2, i), "alloca", "alloca", <<CInt("i32", 1)>>),
     Instruction(Inst("%struct.S*", 2, i), "alloca", "alloca", <<CInt("i32", 1)>>),
     Instruction(Inst("float", 2, i), "call", <<"sinf", "">>, <<CFP("float", 1)>>),
     DxOp(Inst("float", 2, i), 6, <<CFP("float", 1)>>),
     Instruction(Inst("%struct.S", 2, i), "insertvalue", "insertvalue",
                 <<Undef("%struct.S"), CFP("float", 1)>>)}

\* %1 = phi ty [undef, 1], [T, 2] and, with the dead block, [undef, 4].
LoopPhi(T, dead) ==
    PhiNode(Inst(T.ty, 2, 1),
            <<Undef(T.ty), T.self>> \o (IF dead THEN <<Undef(T.ty)>> ELSE << >>),
            <<1, 2>> \o (IF dead THEN <<4>> ELSE << >>))

LoopBlocks(body, dead) ==
    << Block(1, LoopEntryInsts, Br(2)),
       Block(2, body, CondBr(LoopCond, 2, 3)),
       Block(3, << >>, RetVoid) >>
    \o (IF dead THEN << Block(4, << >>, Br(2)) >> ELSE << >>)

InitInstr ==
    \E phi \in BOOLEAN, dead \in BOOLEAN :
      \E T \in TestInstructions(IF phi THEN 2 ELSE 1) :
        /\ phi => T.ty # "void"
        /\ Constructed(PlainModule(
               LoopBlocks(IF phi THEN <<LoopPhi(T, dead), T>> ELSE <<T>>, dead)))

SpecInstr == InitInstr /\ [][Next]_vars


-----------------------------------------------------------------------------
(* Stage inputs and outputs: a vertex shader with one input and one output *)
(* element of every shape (rows and cols 1 or more), whose two blocks load *)
(* the input, store the output and hold one more instruction each.         *)
(*   1: %1 = LoadInput(0, 0, col) ; X ; br 2                                *)
(*   2: Y ; StoreOutput(0, 0, col, %1) ; ret void                           *)

SignatureShapes == {<<1, 1>>, <<1, 4>>, <<2, 1>>, <<2, 4>>}    \* <<rows, cols>>

InputElement(shape) ==
    [element_id |-> 0, element_type |-> "F32", semantic |-> "User",
     rows |-> shape[1], cols |-> shape[2]]

OutputElement(shape) ==
    [element_id |-> 0, element_type |-> "F32", semantic |-> "Position",
     semantic_index |-> 0, rows |-> shape[1], cols |-> shape[2]]

\* %self = call float @dx.op.loadInput.f32(i32 4, i32 element, i32 0, i8 col, i32 undef)
LoadInputInst(b, i, element, col) ==
    DxOp(Inst("float", b, i), LoadInput,
         <<CInt("i32", element), CInt("i32", 0), CInt("i8", col), Undef("i32")>>)

\* call void @dx.op.storeOutput.f32(i32 5, i32 element, i32 0, i8 col, float value)
StoreOutputInst(b, i, element, col, value) ==
    DxOp(Inst("void", b, i), StoreOutput,
         <<CInt("i32", element), CInt("i32", 0), CInt("i8", col), value>>)

\* The instructions X and Y, as instruction i of block b: they lower to no
\* operation, to one, or to two.
IOInstructions(b, i) ==
    {Instruction(Inst("float", b, i), "binary", "FAdd", <<Inst("float", 1, 1), CFP("float", 1)>>),
     Instruction(Inst("i1", b, i), "cmp", "FCMP_TRUE", <<Inst("float", 1, 1), CFP("float", 2)>>),
     Instruction(Inst("i64", b, i), "cast", "PtrToInt", <<Null("float*")>>),
     LoadInputInst(b, i, 0, 1),
     StoreOutputInst(b, i, 0, 1, CFP("float", 3))}

IOModule(input, output, blocks) ==
    [has_entry_points |-> TRUE, has_shader_model |-> TRUE, has_entry_function |-> TRUE,
     shader_model |-> "vs", has_resources |-> FALSE,
     srvs |-> << >>, uavs |-> << >>, cbvs |-> << >>, samplers |-> << >>,
     inputs |-> <<input>>, outputs |-> <<output>>, blocks |-> blocks]

InitIO ==
    \E ishape \in SignatureShapes, oshape \in SignatureShapes :
      \E X \in IOInstructions(1, 2), Y \in IOInstructions(2, 1) :
        Constructed(IOModule(InputElement(ishape), OutputElement(oshape),
            << Block(1, <<LoadInputInst(1, 1, 0, 0), X>>, Br(2)),
               Block(2, <<Y, StoreOutputInst(2, 2, 0, 0, Inst("float", 1, 1))>>, RetVoid) >>))

SpecIO == InitIO /\ [][Next]_vars

-----------------------------------------------------------------------------
(* Integer constants: one block that loads the input between two           *)
(* instructions with integer constant operands of every width, so that a   *)
(* constant is asked for with and without a forced width, in either order. *)
(*   1: A ; %2 = LoadInput(0, 0, col) ; B ; ret void                        *)

ConstInstructions(b, i) ==
    {Instruction(Inst("i8", b, i), "binary", "Add", <<CInt("i8", 1), CInt("i8", 255)>>),
     Instruction(Inst("i16", b, i), "binary", "Add", <<CInt("i16", 1), CInt("i16", 2)>>),
     Instruction(Inst("i32", b, i), "binary", "Add", <<CInt("i32", 7), CIntBits("i32", Limb - 1, 8)>>),
     Instruction(Inst("i64", b, i), "binary", "Add", <<CIntBits("i64", Limb, 1), CInt("i64", 7)>>),
     Instruction(Inst("i32", b, i), "select", "select",
                 <<CInt("i1", 1), CInt("i32", 0), CInt("i32", 7)>>)}

InitConst ==
    \E shape \in SignatureShapes, col \in {0, 1} :
      \E A \in ConstInstructions(1, 1), B \in ConstInstructions(1, 3) :
        Constructed(IOModule(InputElement(shape), OutputElement(shape),
            << Block(1, <<A, LoadInputInst(1, 2, 0, col), B>>, RetVoid) >>))

SpecConst == InitConst /\ [][Next]_vars

-----------------------------------------------------------------------------
(* Metadata: modules with and without dx.entryPoints, dx.shaderModel and   *)
(* the function the entry point names, with every shader-model tag the     *)
(* converter knows and two it does not ("lib", "ms").                      *)

ShaderModelTags == {"vs", "ps", "hs", "ds", "gs", "cs", "lib", "ms"}

InitMeta ==
    \E ep \in BOOLEAN, sm \in BOOLEAN, fn \in BOOLEAN, tag \in ShaderModelTags,
       shape \in SignatureShapes :
        Constructed([IOModule(InputElement(shape), OutputElement(shape),
                        << Block(1, <<LoadInputInst(1, 1, 0, 0)>>, RetVoid) >>)
                       EXCEPT !.has_entry_points = ep, !.has_shader_model = sm,
                              !.has_entry_function = fn, !.shader_model = tag])

SpecMeta == InitMeta /\ [][Next]_vars

-----------------------------------------------------------------------------
(* Signatures: a vertex shader whose input and output lists hold up to     *)
(* MaxElements elements each, with User and system-value semantics mixed   *)
(* and rows of 1 and 2; element k of a list has element id k - 1.          *)

MaxElements == 3

\* <<semantic, rows, semantic index>>; the index of the Target output is none
\* of the sums of rows.
InputKinds == {<<"User", 1, 0>>, <<"User", 2, 0>>, <<"Position", 2, 0>>, <<"VertexID", 1, 0>>}
OutputKinds == {<<"User", 1, 0>>, <<"User", 2, 0>>, <<"Position", 1, 0>>, <<"Target", 2, 7>>}

SignatureElement(k, kind) ==
    [element_id |-> k - 1, element_type |-> "F32", semantic |-> kind[1],
     semantic_index |-> kind[3],
     rows |-> kind[2], cols |-> 4]

SignatureLists(kinds) ==
    UNION {{[k \in 1..n |-> SignatureElement(k, f[k])] : f \in [1..n -> kinds]} : n \in 0..MaxElements}

InitSig ==
    \E inputs \in SignatureLists(InputKinds), outputs \in SignatureLists(OutputKinds) :
        Constructed([IOModule(InputElement(<<1, 1>>), OutputElement(<<1, 1>>),
                        << Block(1, <<Instruction(Inst("float", 1, 1), "binary", "FAdd",
                                                  <<CFP("float", 1), CFP("float", 2)>>)>>,
                                 RetVoid) >>)
                       EXCEPT !.inputs = inputs, !.outputs = outputs])

SpecSig == InitSig /\ [][Next]_vars

-----------------------------------------------------------------------------
(* Constant buffers: one or two CBVs of every size in CbvSizes, among them *)
(* 0, sizes that are no multiple of 16, 2^31 and the sizes within 15 of    *)
(* 2^32; the block creates a handle for CBV 0.                             *)

CbvSizes ==
    {Bits(0), Bits(1), Bits(15), Bits(16), Bits(17), Bits(32),
     <<Limb \div 2, 0>>, <<Limb - 1, Limb - 16>>, <<Limb - 1, Limb - 15>>, <<Limb - 1, Limb - 1>>}

InitCbv ==
    \E sizes \in {<<a>> : a \in CbvSizes} \cup {<<a, b>> : a \in CbvSizes, b \in CbvSizes} :
        Constructed(ResourceModule(<< >>, << >>,
            [k \in DOMAIN sizes |-> [CbvEntry(k - 1, k) EXCEPT !.size = sizes[k]]],
            << >>,
            << Block(1, <<CreateHandleInst(1, 1, 2, 0)>>, RetVoid) >>))

SpecCbv == InitCbv /\ [][Next]_vars

-----------------------------------------------------------------------------
(* Handles: the four resource lists with distinct indices in every order,  *)
(* and one block that creates a handle for a resource some list declares:  *)
(* class is the list (SRV 0, UAV 1, CBV 2, Sampler 3), range an index of   *)
(* one of the list's entries.                                              *)

DeclaredIndices(list) == {list[k] : k \in DOMAIN list}

InitHandle ==
    \E srv \in IndexLists, uav \in IndexLists, cbv \in IndexLists, smp \in IndexLists :
      \E class \in 0..3 :
        \E range \in DeclaredIndices(<<srv, uav, cbv, smp>>[class + 1]) :
          Constructed(ResourceModule(
              [k \in DOMAIN srv |-> SrvEntry(srv[k], k)],
              [k \in DOMAIN uav |-> UavEntry(uav[k], k)],
              [k \in DOMAIN cbv |-> CbvEntry(cbv[k], k)],
              [k \in DOMAIN smp |-> SamplerEntry(smp[k], k)],
              << Block(1, <<CreateHandleInst(1, 1, class, range)>>, RetVoid) >>))

SpecHandle == InitHandle /\ [][Next]_vars

-----------------------------------------------------------------------------
(* Result ids: a texture, a sampler, a constant buffer and one input and   *)
(* output element of four columns; three blocks that create the handles    *)
(* and hold, in a loop, a phi ahead of the instruction it names, with      *)
(* instructions X, Y and Z that lower to one, two or three operations, with *)
(* and without a result id.                                                *)
(*   1: %1, %2, %3 = CreateHandle SRV 0, Sampler 0, CBV 0 ; X ; br 2        *)
(*   2: %1 = phi float [undef, 1], [%3, 2] ; Y ; %3 = fadd %1, 1.0 ;        *)
(*      br i1 true, 2, 3                                                    *)
(*   3: Z ; ret void                                                        *)

\* %self = call %dx.types.CBufRet.* @dx.op.cbufferLoadLegacy(i32 59, %handle, i32 index)
CBufferLoadInst(b, i, ty, index) ==
    DxOp(Inst(ty, b, i), CBufferLoadLegacy, <<Inst("%dx.types.Handle", 1, 3), CInt("i32", index)>>)

\* A sample with the offsets 1, 1, 1 as instruction i of block b.
SampleInstAt(b, i, opcode, tail) ==
    [SampleInst(opcode, [k \in 1..3 |-> CInt("i32", 1)], tail)
        EXCEPT !.self = Inst("%dx.types.ResRet.f32", b, i)]

IdInstructions(b, i) ==
    {SampleInstAt(b, i, Sample, <<CFP("float", 5)>>),
     SampleInstAt(b, i, SampleCmp, <<CFP("float", 8), CFP("float", 5)>>)}
    \cup {CBufferLoadInst(b, i, "%dx.types.CBufRet.f32", 0),
          CBufferLoadInst(b, i, "%dx.types.CBufRet.i32", 1),
          LoadInputInst(b, i, 0, 1),
          StoreOutputInst(b, i, 0, 1, CFP("float", 3)),
          Instruction(Inst("float", b, i), "binary", "FAdd", <<CFP("float", 1), CFP("float", 2)>>),
          Instruction(Inst("i1", b, i), "cmp", "FCMP_ORD", <<CFP("float", 1), CFP("float", 2)>>)}

InitIds ==
    \E X \in IdInstructions(1, 4), Y \in IdInstructions(2, 2), Z \in IdInstructions(3, 1) :
        Constructed([ResourceModule(
            << [index |-> 0, kind |-> "Texture2D", tag0 |-> 0, comp |-> "F32",
                bind_space |-> 0, bind_register |-> 0] >>,
            << >>,
            << CbvEntry(0, 1) >>,
            << SamplerEntry(0, 0) >>,
            << Block(1, << CreateHandleInst(1, 1, 0, 0), CreateHandleInst(1, 2, 3, 0),
                           CreateHandleInst(1, 3, 2, 0), X >>, Br(2)),
               Block(2, << PhiNode(Inst("float", 2, 1),
                                   <<Undef("float"), Inst("float", 2, 3)>>, <<1, 2>>),
                           Y,
                           Instruction(Inst("float", 2, 3), "binary", "FAdd",
                                       <<Inst("float", 2, 1), CFP("float", 1)>>) >>,
                     CondBr(CInt("i1", 1), 2, 3)),
               Block(3, <<Z>>, RetVoid) >>)
          EXCEPT !.inputs = <<InputElement(<<1, 4>>)>>,
                 !.outputs = <<OutputElement(<<1, 4>>)>>])

SpecIds == InitIds /\ [][Next]_vars
-----------------------------------------------------------------------------
(* Properties.                                                             *)

\* The node registered for the block b.
NodeOf(b) == metas[bb_map[b]].node

Registered(b) == b \in DOMAIN bb_map /\ bb_map[b] # 0

\* The successors of the block b in the module, as a set.
HlirSuccessors(b) ==
    {module.blocks[b].term.succ[i] : i \in DOMAIN module.blocks[b].term.succ}

\* The blocks a path of the module's CFG leads to from the blocks S.
RECURSIVE ReachableFrom(_)
ReachableFrom(S) ==
    IF UNION {HlirSuccessors(b) : b \in S} \subseteq S THEN S
    ELSE ReachableFrom(S \cup UNION {HlirSuccessors(b) : b \in S})

ReachableBlocks == ReachableFrom({1})

\* The nodes a path of successor edges leads to from the nodes S.
RECURSIVE NodesFrom(_)
NodesFrom(S) ==
    IF UNION {pool[n].succ : n \in S} \subseteq S THEN S
    ELSE NodesFrom(S \cup UNION {pool[n].succ : n \in S})

ReachableNodes == NodesFrom({result_entry})

\* The instruction the next EmitInstruction step lowers.
AtInstruction ==
    /\ pc = "lower"
    /\ ii <= Len(module.blocks[visit_order[bbi]].insts)

CurrentInstruction == module.blocks[visit_order[bbi]].insts[ii]

\* C1: a value keeps the id it has: every later get_id_for_value(v) returns
\* the id the first call returned, whatever is lowered in between.
C1_SameId ==
    [][\A v \in DOMAIN value_map :
           v \in DOMAIN value_map' /\ value_map'[v] = value_map[v]]_vars

\* C2: after the discovery every block reachable from the entry block is
\* registered with exactly one node, no other reachable block shares that
\* node, and the node's successors are the nodes of the block's successors.
C2_Discovered ==
    pc \in {"lower", "done"} =>
        \A b \in ReachableBlocks :
            /\ Registered(b)
            /\ Cardinality({k \in DOMAIN metas : metas[k].bb = b}) = 1
            /\ \A c \in ReachableBlocks : Registered(c) /\ NodeOf(c) = NodeOf(b) => c = b
            /\ pool[NodeOf(b)].succ = {NodeOf(s) : s \in HlirSuccessors(b)}

\* Discovery is over for a graph where block 2 loops to itself, blocks 1 and
\* 3 lie on a cycle, and block 3 has two predecessors.
C2_Witness ==
    /\ pc = "lower"
    /\ ReachableBlocks = Blocks
    /\ 2 \in HlirSuccessors(2)
    /\ 3 \in HlirSuccessors(1) /\ 1 \in HlirSuccessors(3)
    /\ 3 \in HlirSuccessors(2)
    /\ Cardinality(pool[NodeOf(2)].succ) = 2

\* The variables decorated with the descriptor set and binding of a
\* resource entry.
VariablesOf(entry) ==
    {v \in DOMAIN defs :
        /\ defs[v][1] = "variable"
        /\ \E k \in DOMAIN decorations :
               decorations[k] = <<v, "DescriptorSet", entry.bind_space>>
        /\ \E k \in DOMAIN decorations :
               decorations[k] = <<v, "Binding", entry.bind_register>>}

\* Slot index of the table holds the one variable made for each entry.
TableHolds(entries, table) ==
    \A k \in DOMAIN entries :
        /\ entries[k].index < Len(table)
        /\ VariablesOf(entries[k]) = {table[entries[k].index + 1]}

ResourcesEmitted == pc \notin {"entry_point", "resources"}

\* C3 as stated: after emit_resources, for each of the four lists (SRV,
\* UAV, CBV, Sampler), slot i of the list's table is the variable made for
\* the entry whose index is i.
C3_FourTables ==
    ResourcesEmitted =>
        /\ TableHolds(module.srvs, srv_index_to_id)
        /\ TableHolds(module.uavs, uav_index_to_id)
        /\ TableHolds(module.cbvs, cbv_index_to_id)
        /\ TableHolds(module.samplers, sampler_index_to_id)

\* C3 amended: after emit_resources, for each of the SRV, CBV and Sampler
\* lists, slot i of the list's table is the variable made for the entry
\* whose index is i; no variable is made for a UAV and the UAV table stays
\* empty.
C3_ThreeTables ==
    ResourcesEmitted =>
        /\ TableHolds(module.srvs, srv_index_to_id)
        /\ TableHolds(module.cbvs, cbv_index_to_id)
        /\ TableHolds(module.samplers, sampler_index_to_id)
        /\ uav_index_to_id = << >>
        /\ \A k \in DOMAIN module.uavs : VariablesOf(module.uavs[k]) = {}

\* The resources are emitted for lists of two entries each, the SRVs and
\* the samplers listed with index 1 before index 0.
C3_Witness ==
    /\ pc = "stage_inputs"
    /\ Len(module.srvs) = 2 /\ module.srvs[1].index = 1
    /\ Len(module.cbvs) = 2 /\ module.cbvs[1].index = 0
    /\ Len(module.samplers) = 2 /\ module.samplers[1].index = 1
    /\ Len(module.uavs) = 2
    /\ Len(srv_index_to_id) = 2 /\ Len(cbv_index_to_id) = 2

\* C4: an operation in a node's list with a result id has a result type id.
C4_TypedResults ==
    \A n \in DOMAIN pool :
        \A k \in DOMAIN pool[n].operations :
            pool[n].operations[k].id # 0 => pool[n].operations[k].type_id # 0

SetTerminators == {"Branch", "Condition", "Switch", "Return", "Unreachable"}

\* C5 as stated: when convert_entry_point returns, every node reachable
\* from the entry node has a terminator of one of the five types.
C5_AllTerminated ==
    pc = "done" => \A n \in ReachableNodes : pool[n].terminator.type \in SetTerminators

\* C5 amended: when convert_entry_point returns, every node reachable from
\* the entry node whose block ends in a branch, a switch, a return or an
\* unreachable has the terminator of that kind; the node of a block that
\* ends in any other terminator is left with the default terminator.
C5_SupportedTerminated ==
    pc = "done" =>
        \A k \in DOMAIN metas :
            metas[k].node \in ReachableNodes =>
                pool[metas[k].node].terminator.type =
                    CASE module.blocks[metas[k].bb].term.kind = "br" ->
                             IF Len(module.blocks[metas[k].bb].term.succ) = 2
                             THEN "Condition" ELSE "Branch"
                      [] module.blocks[metas[k].bb].term.kind = "switch" -> "Switch"
                      [] module.blocks[metas[k].bb].term.kind = "ret" -> "Return"
                      [] module.blocks[metas[k].bb].term.kind = "unreachable" -> "Unreachable"
                      [] OTHER -> DefaultTerminator.type

\* The conversion has returned for three reachable blocks that end in a
\* conditional branch, a switch and a return.
C5_Witness ==
    /\ pc = "done"
    /\ Cardinality(ReachableNodes) = 3
    /\ {pool[n].terminator.type : n \in ReachableNodes} = {"Condition", "Switch", "Return"}

\* The sample intrinsic of a one-block module whose third instruction it is,
\* and whether that instruction has been lowered.
SampleInstruction == module.blocks[1].insts[3]

SampleOpcode == get_constant_operand(SampleInstruction, 0)

SampleLowered == pc = "done" \/ (pc = "lower" /\ (bbi > 1 \/ ii > 3))

EntryOperations == pool[result_entry].operations

IsFloat32(type) == type \in DOMAIN defs /\ defs[type][1] = "float" /\ defs[type][2] = 32

IsVec4Float32(type) ==
    /\ type \in DOMAIN defs
    /\ defs[type][1] = "vector" /\ IsFloat32(defs[type][2]) /\ defs[type][3] = 4

\* The operations that define the id.
DefinedBy(id) == {k \in DOMAIN EntryOperations : EntryOperations[k].id = id}

\* Operation k is the raw comparison sample and operation k + 1 the
\* OpCompositeConstruct of a 4-vector of 32-bit floats that repeats the
\* sample's scalar four times and defines the instruction's id.
SplatAt(k) ==
    /\ EntryOperations[k].op \in {"OpImageSampleDrefImplicitLod", "OpImageSampleDrefExplicitLod"}
    /\ IsFloat32(EntryOperations[k].type_id)
    /\ EntryOperations[k].id # 0
    /\ EntryOperations[k].id # value_map[SampleInstruction.self]
    /\ DefinedBy(EntryOperations[k].id) = {k}
    /\ EntryOperations[k].id \notin {value_map[v] : v \in DOMAIN value_map}
    /\ EntryOperations[k + 1].op = "OpCompositeConstruct"
    /\ EntryOperations[k + 1].id = value_map[SampleInstruction.self]
    /\ IsVec4Float32(EntryOperations[k + 1].type_id)
    /\ EntryOperations[k + 1].arguments =
           [i \in 1..4 |-> EntryOperations[k].id]
    /\ DefinedBy(value_map[SampleInstruction.self]) = {k + 1}

\* C7: once a SampleCmp or SampleCmpLevelZero is lowered and has an id, the
\* id is that of an OpCompositeConstruct of a 4-vector of 32-bit floats
\* whose four arguments are the scalar id of the raw sample before it, and
\* the raw sample's id is a fresh one, not the instruction's.
C7_ComparisonSplat ==
    (/\ SampleLowered
     /\ SampleOpcode \in {SampleCmp, SampleCmpLevelZero}
     /\ SampleInstruction.self \in DOMAIN value_map)
    => /\ Len(EntryOperations) >= 2
       /\ SplatAt(Len(EntryOperations) - 1)

\* A SampleCmpLevelZero of a cube texture is lowered and has its id.
C7_Witness ==
    /\ pc = "done"
    /\ SampleOpcode = SampleCmpLevelZero
    /\ module.srvs[1].kind = "TextureCube"
    /\ SampleInstruction.self \in DOMAIN value_map
    /\ value_map[SampleInstruction.self] # 0

\* The current instruction is a phi, and the step that lowers it appends
\* one record to the node's phis and nothing to its operations; the record
\* has the phi's id and, in order, one entry for each incoming pair, with
\* the node registered for the incoming block and the id of the value.
PhiRecorded ==
    /\ pc' = "lower"
    /\ pool'[NodeOf(visit_order[bbi])].operations = pool[NodeOf(visit_order[bbi])].operations
    /\ Len(pool'[NodeOf(visit_order[bbi])].phi) = Len(pool[NodeOf(visit_order[bbi])].phi) + 1
    /\ \A n \in DOMAIN pool : n # NodeOf(visit_order[bbi]) => pool'[n] = pool[n]
    /\ LET record == pool'[NodeOf(visit_order[bbi])].phi[Len(pool[NodeOf(visit_order[bbi])].phi) + 1]
       IN  /\ record.id = value_map'[CurrentInstruction.self]
           /\ Len(record.incoming) = Len(CurrentInstruction.args)
           /\ \A i \in DOMAIN CurrentInstruction.args :
                  /\ Registered(CurrentInstruction.blocks[i])
                  /\ record.incoming[i].block = NodeOf(CurrentInstruction.blocks[i])
                  /\ record.incoming[i].id = value_map'[CurrentInstruction.args[i]]

\* C8: lowering a phi with k incoming pairs appends exactly one phi record
\* to the block's node, with k entries in order, each the node registered
\* for the incoming block and the id of the incoming value, and appends
\* nothing to the node's operations.
C8_PhiRecord ==
    [][(AtInstruction /\ CurrentInstruction.kind = "phi") => PhiRecorded]_vars

\* The terminator of block 1 of the module and that of its node.
EntryTerm == module.blocks[1].term

EntryTerminator == pool[result_entry].terminator

EntryLowered == pc = "done" \/ (pc = "lower" /\ bbi > 1)

\* C9: a block that ends in a switch on v with default D and the cases
\* (c_1, B_1) .. (c_n, B_n) has the terminator Switch with the id of v, the
\* node of D, and exactly the n cases, in order, of c_i modulo 2^32 and the
\* node of B_i.
C9_Switch ==
    (EntryLowered /\ EntryTerm.kind = "switch") =>
        /\ EntryTerminator.type = "Switch"
        /\ EntryTerm.cond \in DOMAIN value_map
        /\ EntryTerminator.conditional_id = value_map[EntryTerm.cond]
        /\ EntryTerminator.default_node = NodeOf(EntryTerm.succ[1])
        /\ Len(EntryTerminator.cases) = Len(EntryTerm.casevals)
        /\ \A i \in DOMAIN EntryTerm.casevals :
               /\ EntryTerminator.cases[i].node = NodeOf(EntryTerm.succ[i + 1])
               /\ EntryTerminator.cases[i].value =
                      <<EntryTerm.casevals[i][3] % Limb, EntryTerm.casevals[i][4]>>

\* A switch of two cases is lowered, the first case value above 2^32, the
\* cases leading to different blocks.
C9_Witness ==
    /\ pc = "done"
    /\ EntryTerm.kind = "switch"
    /\ Len(EntryTerm.casevals) = 2
    /\ EntryTerm.casevals[1][3] >= Limb
    /\ EntryTerm.succ[2] # EntryTerm.succ[3]
    /\ Len(EntryTerminator.cases) = 2

\* The number of offset operands the sampled texture's kind takes.
OffsetCount(kind) ==
    CASE kind \in {"Texture1D", "Texture1DArray", "TypedBuffer"} -> 1
      [] kind \in {"Texture2D", "Texture2DArray"} -> 2
      [] kind \in {"Texture3D", "TextureCube", "TextureCubeArray"} -> 3
      [] OTHER -> 0

\* Some offset operand of the sample is a constant that is not zero.
NonZeroOffset ==
    \E i \in 1..OffsetCount(module.srvs[1].kind) :
        /\ isConstantInt(getOperand(SampleInstruction, i + 6))
        /\ getZExtValue(getOperand(SampleInstruction, i + 6)) # <<0, 0>>

RawSampleOps ==
    {"OpImageSampleImplicitLod", "OpImageSampleExplicitLod",
     "OpImageSampleDrefImplicitLod", "OpImageSampleDrefExplicitLod"}

\* The image-operands mask of a raw sample: the argument after the sampled
\* image, the coordinate and, for a Dref sample with a reference, the reference.
MaskOf(op) ==
    op.arguments[IF SampleOpcode = SampleCmp THEN 4 ELSE 3]

HasBit(mask, bit) == (mask \div bit) % 2 = 1

\* The arguments a raw sample has after its mask without an offset vector.
ArgumentsAfterMask(mask) ==
    B2I(HasBit(mask, ImageOperandsBiasMask) \/ HasBit(mask, ImageOperandsLodMask))
    + B2I(HasBit(mask, ImageOperandsMinLodMask))

\* C10: the mask of the raw sample has the ConstOffset bit exactly when some
\* offset operand is a constant that is not zero; when every offset operand
\* is undef or zero no offset vector is among the arguments.
C10_ConstOffset ==
    SampleLowered =>
        \A k \in DOMAIN EntryOperations :
            EntryOperations[k].op \in RawSampleOps =>
                /\ HasBit(MaskOf(EntryOperations[k]), ImageOperandsConstOffsetMask)
                       <=> NonZeroOffset
                /\ ~NonZeroOffset =>
                       Len(EntryOperations[k].arguments) =
                           (IF SampleOpcode = SampleCmp THEN 4 ELSE 3)
                           + ArgumentsAfterMask(MaskOf(EntryOperations[k]))


\* The sequence a is the beginning of the sequence b.
IsPrefix(a, b) == Len(a) <= Len(b) /\ \A k \in DOMAIN a : b[k] = a[k]

\* The instructions <<b, i>> whose value has the id.
InstructionsOf(id) ==
    {v \in DOMAIN value_map : v[1] = "inst" /\ value_map[v] = id}

\* The operations of every registered block's node that carry the id of an
\* instruction carry ids of that block's instructions only, in the order of
\* the instructions.
OperationsInOrder ==
    \A m \in DOMAIN metas :
        \A k, l \in DOMAIN pool[metas[m].node].operations :
            \A u \in InstructionsOf(pool[metas[m].node].operations[k].id),
               v \in InstructionsOf(pool[metas[m].node].operations[l].id) :
                /\ u[3] = metas[m].bb
                /\ k <= l => u[4] <= v[4]

\* A step leaves every node's operations as they are, or it lowers an
\* instruction and appends to the operations of the current block's node.
OperationsAppended ==
    \A n \in DOMAIN pool :
        /\ n \in DOMAIN pool'
        /\ IsPrefix(pool[n].operations, pool'[n].operations)
        /\ pool'[n].operations # pool[n].operations =>
               AtInstruction /\ n = NodeOf(visit_order[bbi])

\* C11: within one node the operations keep the order of the block's
\* instructions (the operations of an instruction are appended after those
\* of the instructions before it), and while a block is lowered no
\* operation is appended to the node of another block.
C11_InstructionOrder == []OperationsInOrder /\ [][OperationsAppended]_vars

\* Both blocks are lowered; the node of block 1 has three operations (an
\* access chain and a load for the first instruction, one for the second)
\* and the node of block 2 has three as well.
C11_Witness ==
    /\ pc = "done"
    /\ Len(pool[NodeOf(1)].operations) = 3
    /\ pool[NodeOf(1)].operations[1].op = "OpInBoundsAccessChain"
    /\ Inst("float", 1, 2) \in DOMAIN value_map
    /\ pool[NodeOf(1)].operations[3].id = value_map[Inst("float", 1, 2)]
    /\ Len(pool[NodeOf(2)].operations) = 3

\* The instruction is a binary, unary, cast or compare instruction whose
\* opcode or predicate has no case in its emitter's switch.
Unsupported(I) ==
    \/ I.kind = "binary" /\ binary_op(I.op) = "OpNop"
    \/ I.kind = "unary" /\ I.op # "FNeg"
    \/ I.kind = "cast" /\ cast_op(I.op) = "OpNop"
    \/ I.kind = "cmp" /\ compare_op(I.op) = "OpNop"

\* The step logs one more diagnostic and appends no operation to any node.
LoggedAndSkipped ==
    /\ Len(log') = Len(log) + 1
    /\ \A n \in DOMAIN pool : pool'[n].operations = pool[n].operations

\* C12: lowering a binary, unary, cast or compare instruction with an
\* unsupported opcode or predicate logs a diagnostic and appends no
\* operation; only the id reserved for the instruction remains.
C12_UnsupportedSkipped ==
    [][(AtInstruction /\ Unsupported(CurrentInstruction)) =>
           (LoggedAndSkipped /\ CurrentInstruction.self \in DOMAIN value_map')]_vars

\* The id is, after the step, the builder's constant of the 32-bit unsigned
\* integer type with the bits p.
IsUintConstant(id, p) ==
    /\ id \in DOMAIN defs'
    /\ defs'[id][1] = "constant"
    /\ defs'[id][2] \in DOMAIN defs'
    /\ defs'[defs'[id][2]] = <<"int", 32, 0, 0, 0, 0, 0>>
    /\ <<defs'[id][3], defs'[id][4]>> = p

\* The step lowers a LoadInput or StoreOutput of a variable with more than
\* one component, whose operand 3 is v: the one place where get_id_for_value
\* is called with forced_width 32, before any other call of that step.
ForcedHere(v) ==
    /\ AtInstruction
    /\ CurrentInstruction.kind = "call"
    /\ CurrentInstruction.op[1] = "dx.op"
    /\ get_constant_operand(CurrentInstruction, 0) \in {LoadInput, StoreOutput}
    /\ v = getOperand(CurrentInstruction, 3)
    /\ LET table == IF get_constant_operand(CurrentInstruction, 0) = LoadInput
                    THEN input_elements_ids ELSE output_elements_ids
           key == get_constant_operand(CurrentInstruction, 1)
       IN  /\ key \in DOMAIN table
           /\ getNumTypeComponents(Cur, getDerefTypeId(Cur, table[key])) > 1

EffectiveWidth(v) == IF ForcedHere(v) THEN 32 ELSE getIntegerBitWidth(TypeOf(v))

Returned == pc = "done"

\* C14: a module without dx.entryPoints, without dx.shaderModel or without
\* the function the entry point names never makes convert_entry_point
\* return.
C14_MissingMetadataFatal ==
    (~module.has_entry_points \/ ~module.has_shader_model \/ ~module.has_entry_function)
        => ~Returned

\* The execution model the specification gives a shader-model tag.
ModelOfTag ==
    [vs |-> "ExecutionModelVertex", ps |-> "ExecutionModelFragment",
     hs |-> "ExecutionModelTessellationControl",
     ds |-> "ExecutionModelTessellationEvaluation",
     gs |-> "ExecutionModelGeometry", cs |-> "ExecutionModelGLCompute"]

\* C15: once the entry point step is over, a module tagged vs, ps, hs, ds,
\* gs or cs has the entry point of the Vertex, Fragment, TessControl,
\* TessEval, Geometry or GLCompute model; for any other tag an error is
\* logged and no entry point is emitted.
C15_ShaderModel ==
    (pc # "entry_point" /\ module.has_shader_model) =>
        IF module.shader_model \in DOMAIN ModelOfTag
        THEN entry_point.model = ModelOfTag[module.shader_model]
        ELSE entry_point.model = "none" /\ log # << >>

HandledOpcodes ==
    {LoadInput, StoreOutput, CreateHandle, CBufferLoadLegacy,
     Sample, SampleBias, SampleLevel, SampleCmp, SampleCmpLevelZero}

HandledKinds ==
    {"call", "binary", "unary", "cast", "getelementptr", "load", "store", "cmp",
     "extractvalue", "alloca", "select", "phi"}

\* A call of a function that is no dx.op intrinsic, a dx.op call with a
\* sub-opcode that is not handled, or an instruction of no handled kind.
Unknown(I) ==
    \/ I.kind = "call" /\ I.op[1] # "dx.op"
    \/ I.kind = "call" /\ I.op[1] = "dx.op" /\ get_constant_operand(I, 0) \notin HandledOpcodes
    \/ I.kind \notin HandledKinds

\* The step emits nothing: the nodes, value_map and the handle tables stay.
NothingEmitted ==
    /\ pool' = pool
    /\ value_map' = value_map
    /\ handle_to_ptr_id' = handle_to_ptr_id
    /\ <<srv_index_to_id, uav_index_to_id, cbv_index_to_id, sampler_index_to_id>>' =
           <<srv_index_to_id, uav_index_to_id, cbv_index_to_id, sampler_index_to_id>>

\* C16: lowering an unknown instruction emits nothing and logs a
\* diagnostic.
C16_UnknownLogged ==
    [][(AtInstruction /\ Unknown(CurrentInstruction)) =>
           (NothingEmitted /\ Len(log') = Len(log) + 1)]_vars

DiscoveryOver == pc \in {"lower", "done"}

\* visit_order holds the blocks reachable from the entry block, each once,
\* the entry block first.
VisitOrderExact ==
    /\ {visit_order[k] : k \in DOMAIN visit_order} = ReachableBlocks
    /\ \A k, l \in DOMAIN visit_order : visit_order[k] = visit_order[l] => k = l
    /\ visit_order # << >> /\ visit_order[1] = 1

\* C17: the discovery ends, and when it has ended visit_order holds every
\* block reachable from the entry block exactly once, the entry block
\* first, and no other block.
C17_DiscoveryEnds == <>DiscoveryOver /\ [](DiscoveryOver => VisitOrderExact)

\* The discovery has ended for a graph with a self-loop, a cycle through
\* the entry block and a block no path reaches.
C17_Witness ==
    /\ pc = "lower"
    /\ 2 \in HlirSuccessors(2)
    /\ 1 \in HlirSuccessors(2)
    /\ ReachableBlocks = {1, 2}
    /\ visit_order = <<1, 2>>

\* The input element and the variable made for it.
InputShape == module.inputs[1]

InputVariable == input_elements_ids[0]

\* The operations that lowering the entry block's first instruction, a
\* LoadInput, has appended: the node's operations after that step.
FirstLowered == pc = "lower" /\ bbi = 1 /\ ii = 2

\* An access chain into the input variable and a load through it.
ChainAndLoad(ops) ==
    /\ Len(ops) = 2
    /\ ops[1].op = "OpInBoundsAccessChain"
    /\ ops[1].arguments[1] = InputVariable
    /\ ops[2].op = "OpLoad"
    /\ ops[2].arguments = <<ops[1].id>>

\* A load of the input variable itself.
LoadOnly(ops) ==
    /\ Len(ops) = 1
    /\ ops[1].op = "OpLoad"
    /\ ops[1].arguments = <<InputVariable>>

\* C18: a LoadInput lowers to an access chain and a load of the element
\* exactly when the input element has more than one row; an element of one
\* row, whatever its columns, lowers to a load of the variable alone.
C18_LoadInputRows ==
    FirstLowered =>
        IF InputShape.rows > 1 THEN ChainAndLoad(EntryOperations)
        ELSE LoadOnly(EntryOperations)

DrefSampleOps == {"OpImageSampleDrefImplicitLod", "OpImageSampleDrefExplicitLod"}

\* The comparison reference of the sample: its operand 10.
DrefOperand == getOperand(SampleInstruction, 10)

\* C19: every Dref sample in the node has the id of the instruction's
\* operand 10 as its third argument, after the sampled image and the
\* coordinate and before the mask.
C19_DrefArgument ==
    SampleLowered =>
        \A k \in DOMAIN EntryOperations :
            EntryOperations[k].op \in DrefSampleOps =>
                /\ DrefOperand \in DOMAIN value_map
                /\ value_map[DrefOperand] # 0
                /\ Len(EntryOperations[k].arguments) >= 4
                /\ EntryOperations[k].arguments[3] = value_map[DrefOperand]

\* The id is that of an operation with the opcode before operation k.
MadeBefore(id, opcode, k) ==
    \E j \in 1..(k - 1) : EntryOperations[j].op = opcode /\ EntryOperations[j].id = id

IsConstantOf(id, class) ==
    /\ id \in DOMAIN defs /\ defs[id][1] = "constant"
    /\ defs[id][2] \in DOMAIN defs /\ defs[defs[id][2]][1] = class

IdOf(v) == IF v \in DOMAIN value_map THEN value_map[v] ELSE 0

\* The coordinate: a vector built before the sample, or the id of the one
\* coordinate operand.
IsCoordinate(id, k) ==
    \/ MadeBefore(id, "OpCompositeConstruct", k)
    \/ id # 0 /\ id = IdOf(getOperand(SampleInstruction, 3))

\* The offset: a vector built before the sample, or the one int constant.
IsOffset(id, k) ==
    \/ MadeBefore(id, "OpCompositeConstruct", k)
    \/ IsConstantOf(id, "int")

\* The Lod or Bias argument: operand 10 of SampleBias and SampleLevel, the
\* float constant 0 of SampleCmpLevelZero.
IsLodOrBias(id) ==
    IF SampleOpcode = SampleCmpLevelZero
    THEN IsConstantOf(id, "float") /\ defs[id][3] = 0
    ELSE id # 0 /\ id = IdOf(getOperand(SampleInstruction, 10))

\* The MinLod argument: the clamp operand, 11 of SampleCmp and 10 of Sample.
IsMinLod(id) ==
    id # 0 /\ id = IdOf(getOperand(SampleInstruction, IF SampleOpcode = SampleCmp THEN 11 ELSE 10))

\* The arguments of operation k from position p on are the mask and, in
\* this order, one argument for each of its bits: Lod or Bias, ConstOffset,
\* MinLod; the mask has no other bit.
MaskAndOperands(k, p) ==
    LET args == EntryOperations[k].arguments
        mask == args[p]
        lod == HasBit(mask, ImageOperandsBiasMask) \/ HasBit(mask, ImageOperandsLodMask)
        off == HasBit(mask, ImageOperandsConstOffsetMask)
        min == HasBit(mask, ImageOperandsMinLodMask)
    IN  /\ mask = B2I(HasBit(mask, ImageOperandsBiasMask)) * ImageOperandsBiasMask
                  + B2I(HasBit(mask, ImageOperandsLodMask)) * ImageOperandsLodMask
                  + B2I(off) * ImageOperandsConstOffsetMask
                  + B2I(min) * ImageOperandsMinLodMask
        /\ Len(args) = p + B2I(lod) + B2I(off) + B2I(min)
        /\ lod => IsLodOrBias(args[p + 1])
        /\ off => IsOffset(args[p + B2I(lod) + 1], k)
        /\ min => IsMinLod(args[p + B2I(lod) + B2I(off) + 1])

\* C20: the arguments of a raw sample are the sampled image, the
\* coordinate, the reference if there is one, the mask, then the Lod or
\* Bias argument, the offset vector and the MinLod argument, each exactly
\* when the mask has its bit.
C20_ArgumentOrder ==
    SampleLowered =>
        \A k \in DOMAIN EntryOperations :
            EntryOperations[k].op \in RawSampleOps =>
                /\ Len(EntryOperations[k].arguments) >= 3
                /\ MadeBefore(EntryOperations[k].arguments[1], "OpSampledImage", k)
                /\ IsCoordinate(EntryOperations[k].arguments[2], k)
                /\ \/ MaskAndOperands(k, 3)
                   \/ /\ Len(EntryOperations[k].arguments) >= 4
                      /\ EntryOperations[k].arguments[3] # 0
                      /\ EntryOperations[k].arguments[3] = IdOf(DrefOperand)
                      /\ EntryOperations[k].op \in DrefSampleOps
                      /\ MaskAndOperands(k, 4)

\* A SampleCmp with a reference, offsets and a clamp is lowered: its six
\* arguments end in the mask ConstOffset | MinLod, the offset vector and
\* the clamp.
C20_Witness ==
    /\ pc = "done"
    /\ SampleOpcode = SampleCmp
    /\ \E k \in DOMAIN EntryOperations :
           /\ EntryOperations[k].op = "OpImageSampleDrefImplicitLod"
           /\ Len(EntryOperations[k].arguments) = 6
           /\ EntryOperations[k].arguments[4] =
                  ImageOperandsConstOffsetMask + ImageOperandsMinLodMask

-----------------------------------------------------------------------------
(* C21: in the stage-input list and in the stage-output list, the k-th
   element, when its semantic is User, is decorated with Location equal to
   the sum of the rows of the User elements before it in the same list
   (0 for the first), each list counting on its own; an element of another
   semantic gets no Location from the counter and leaves the counter as it
   is: a Target output gets its semantic index, any other element of
   another semantic no Location at all. *)
SignatureEmitted == pc \in {"entry_node", "discover", "lower", "done"}

RECURSIVE UserRowsBefore(_, _)
UserRowsBefore(list, k) ==
    IF k <= 1 THEN 0
    ELSE UserRowsBefore(list, k - 1)
         + (IF list[k - 1].semantic = "User" THEN list[k - 1].rows ELSE 0)

LocationsOf(id) ==
    {decorations[d][3] : d \in {x \in 1..Len(decorations) :
                                   decorations[x][1] = id /\ decorations[x][2] = "Location"}}

LocationsByCounter(list, ids) ==
    \A k \in 1..Len(list) :
        /\ list[k].element_id \in DOMAIN ids
        /\ ClassOf(Cur, ids[list[k].element_id]) = "variable"
        /\ LocationsOf(ids[list[k].element_id]) =
              CASE list[k].semantic = "User" -> {UserRowsBefore(list, k)}
                [] list[k].semantic = "Target" -> {list[k].semantic_index}
                [] OTHER -> {}

C21_UserLocations ==
    SignatureEmitted =>
        /\ LocationsByCounter(module.inputs, input_elements_ids)
        /\ LocationsByCounter(module.outputs, output_elements_ids)

\* Both lists hold a User element after a User element of two rows and an
\* element of another semantic, and the two counters stand at different sums.
C21_Witness ==
    /\ pc = "done"
    /\ Len(module.inputs) = 3 /\ Len(module.outputs) = 3
    /\ module.inputs[1].semantic = "User" /\ module.inputs[1].rows = 2
    /\ module.inputs[2].semantic = "Position"
    /\ module.inputs[3].semantic = "User"
    /\ module.outputs[1].semantic = "Target"
    /\ module.outputs[2].semantic = "User" /\ module.outputs[2].rows = 1
    /\ module.outputs[3].semantic = "User"
    /\ LocationsOf(input_elements_ids[2]) = {2}
    /\ LocationsOf(output_elements_ids[2]) = {1}

-----------------------------------------------------------------------------
(* C22: for every CBV size S of 32 bits (0, sizes that are no multiple of
   16 and sizes within 15 of 2^32 among them), the length constant of the
   array of vec4 that emit_cbvs makes is ceil(S/16), as computed without
   wrap-around. *)
\* ceil(S/16) of the pattern <<hi, lo>>: at most 2^28.
CeilDiv16(size) == size[1] * (Limb \div 16) + (size[2] + 15) \div 16

\* The length constant of the member array of the CBV variable var_id.
ArrayLengthOf(var_id) ==
    LET struct_id == defs[defs[var_id][3]][3]
        array_id == defs[struct_id][2]
        length_id == defs[array_id][3]
    IN  <<defs[length_id][3], defs[length_id][4]>>

IsCbvVariable(var_id) ==
    /\ var_id \in DOMAIN defs
    /\ defs[var_id][1] = "variable" /\ defs[var_id][2] = "Uniform"
    /\ defs[defs[var_id][3]][1] = "pointer"
    /\ defs[defs[defs[var_id][3]][3]][1] = "struct"
    /\ defs[defs[defs[defs[var_id][3]][3]][2]][1] = "array"
    /\ defs[defs[defs[defs[defs[var_id][3]][3]][2]][3]][1] = "constant"

C22_Vec4Length ==
    ResourcesEmitted =>
        \A k \in DOMAIN module.cbvs :
            /\ module.cbvs[k].index < Len(cbv_index_to_id)
            /\ IsCbvVariable(cbv_index_to_id[module.cbvs[k].index + 1])
            /\ ArrayLengthOf(cbv_index_to_id[module.cbvs[k].index + 1])
                   = Bits(CeilDiv16(module.cbvs[k].size))

\* What holds: the length is ((S + 15) mod 2^32) div 16.
C22_Vec4LengthWrapped ==
    ResourcesEmitted =>
        \A k \in DOMAIN module.cbvs :
            /\ module.cbvs[k].index < Len(cbv_index_to_id)
            /\ IsCbvVariable(cbv_index_to_id[module.cbvs[k].index + 1])
            /\ ArrayLengthOf(cbv_index_to_id[module.cbvs[k].index + 1])
                   = IF module.cbvs[k].size[1] = Limb - 1 /\ module.cbvs[k].size[2] > Limb - 16
                     THEN Bits(0)
                     ELSE Bits(CeilDiv16(module.cbvs[k].size))

-----------------------------------------------------------------------------
(* C23: whenever CreateHandle(kind, range, ...) is lowered for kind SRV,
   UAV, CBV or Sampler, range is within the current size of the kind's
   index table, and the id bound to the instruction is not 0: the id of
   the OpLoad of the table's variable for SRV and Sampler, the variable's
   id itself for UAV and CBV. *)
IsCreateHandle(I) ==
    /\ I.kind = "call" /\ I.op[1] = "dx.op"
    /\ get_constant_operand(I, 0) = CreateHandle
    /\ get_constant_operand(I, 1) \in 0..3

HandleTable(I) ==
    <<srv_index_to_id, uav_index_to_id, cbv_index_to_id, sampler_index_to_id>>
        [get_constant_operand(I, 1) + 1]

\* The operation the step appended to the node of the current block.
AppendedOperation ==
    LET node == NodeOf(visit_order[bbi])
    IN  pool'[node].operations[Len(pool'[node].operations)]

HandleBound(I) ==
    /\ get_constant_operand(I, 2) < Len(HandleTable(I))
    /\ I.self \in DOMAIN handle_to_ptr_id'
    /\ handle_to_ptr_id'[I.self] # 0
    /\ IF get_constant_operand(I, 1) \in {1, 2}
       THEN handle_to_ptr_id'[I.self] = HandleTable(I)[get_constant_operand(I, 2) + 1]
       ELSE /\ Len(pool'[NodeOf(visit_order[bbi])].operations)
                 = Len(pool[NodeOf(visit_order[bbi])].operations) + 1
            /\ AppendedOperation.op = "OpLoad"
            /\ AppendedOperation.id = handle_to_ptr_id'[I.self]
            /\ AppendedOperation.arguments
                 = <<HandleTable(I)[get_constant_operand(I, 2) + 1]>>

C23_HandleInTable ==
    [][(AtInstruction /\ IsCreateHandle(CurrentInstruction))
          => HandleBound(CurrentInstruction)]_vars

\* What holds: the same for the kinds SRV, CBV and Sampler.
C23_HandleInTableButUav ==
    [][(AtInstruction /\ IsCreateHandle(CurrentInstruction)
          /\ get_constant_operand(CurrentInstruction, 1) # 1)
          => HandleBound(CurrentInstruction)]_vars

-----------------------------------------------------------------------------
(* C24: during phi and terminator lowering every bb_map lookup finds a
   block registered by the discovery: no step of the lowering adds a key to
   bb_map, and every node stored in a phi's incoming entry or in a
   terminator target is a node of the pool, not null, also when a phi names
   an incoming block that is not reachable from the entry block. *)
IsNode(n) == n # 0 /\ n \in DOMAIN pool

TerminatorTargets(t) ==
    CASE t.type = "Branch" -> {t.direct_block}
      [] t.type = "Condition" -> {t.true_block, t.false_block}
      [] t.type = "Switch" -> {t.default_node} \cup {t.cases[k].node : k \in DOMAIN t.cases}
      [] OTHER -> {}

NodePointersValid ==
    \A n \in DOMAIN pool :
        /\ \A p \in DOMAIN pool[n].phi :
               \A k \in DOMAIN pool[n].phi[p].incoming : IsNode(pool[n].phi[p].incoming[k].block)
        /\ \A target \in TerminatorTargets(pool[n].terminator) : IsNode(target)

KeysFixed == pc = "lower" => DOMAIN bb_map' = DOMAIN bb_map

C24_LookupsFindBlocks == []NodePointersValid /\ [][KeysFixed]_vars

\* Every incoming block of every phi of the module is reachable from the
\* entry block.
PhisNameReachable ==
    \A b \in DOMAIN module.blocks : \A i \in DOMAIN module.blocks[b].insts :
        module.blocks[b].insts[i].kind = "phi" =>
            \A k \in DOMAIN module.blocks[b].insts[i].blocks :
                module.blocks[b].insts[i].blocks[k] \in ReachableBlocks

\* What holds: the same for modules whose phis name reachable blocks only.
C24_LookupsFindReachable ==
    /\ [](PhisNameReachable => NodePointersValid)
    /\ [][PhisNameReachable => KeysFixed]_vars

-----------------------------------------------------------------------------
(* C25: when convert_entry_point returns, every node that a node's
   terminator names as a target (the target of a Branch, the true and the
   false target of a Condition, the default and the case targets of a
   Switch) is among the successors that add_branch gave the node during
   the discovery. *)
C25_TargetsAreSuccessors ==
    Returned =>
        \A n \in DOMAIN pool : TerminatorTargets(pool[n].terminator) \subseteq pool[n].succ

\* The run has returned with a node that ends in a Condition with two
\* different targets and a node that ends in a Switch with a case.
C25_Witness ==
    /\ Returned
    /\ \E n \in DOMAIN pool :
           /\ pool[n].terminator.type = "Condition"
           /\ pool[n].terminator.true_block # pool[n].terminator.false_block
    /\ \E n \in DOMAIN pool :
           /\ pool[n].terminator.type = "Switch"
           /\ pool[n].terminator.cases # << >>
           /\ pool[n].terminator.cases[1].node # pool[n].terminator.default_node

-----------------------------------------------------------------------------
(* C26: across all CFG nodes of the lowered function every result id
   other than 0 is defined at most once: no two operations, no two phi
   records, and no operation and phi record have the same result id. *)
\* The definitions of ids: <<node, "op" or "phi", position>>.
Definitions ==
    UNION {{<<n, "op", k>> : k \in DOMAIN pool[n].operations}
           \cup {<<n, "phi", k>> : k \in DOMAIN pool[n].phi} : n \in DOMAIN pool}

DefinedId(d) ==
    IF d[2] = "op" THEN pool[d[1]].operations[d[3]].id ELSE pool[d[1]].phi[d[3]].id

C26_UniqueResultIds ==
    \A d, e \in Definitions : (DefinedId(d) # 0 /\ DefinedId(d) = DefinedId(e)) => d = e

\* The run has returned with an instruction lowered to three operations (a
\* cbuffer load of integers: access chain, load, bitcast), a sample, and a
\* phi that was lowered before the instruction it names.
C26_Witness ==
    /\ Returned
    /\ \E n \in DOMAIN pool : \E k \in DOMAIN pool[n].operations :
           /\ pool[n].operations[k].op = "OpBitcast"
           /\ k > 2 /\ pool[n].operations[k - 1].op = "OpLoad"
           /\ pool[n].operations[k - 2].op = "OpInBoundsAccessChain"
    /\ \E n \in DOMAIN pool : \E k \in DOMAIN pool[n].operations :
           pool[n].operations[k].op = "OpImageSampleDrefImplicitLod"
    /\ \E n \in DOMAIN pool : \E p \in DOMAIN pool[n].phi : \E k \in DOMAIN pool[n].operations :
           /\ pool[n].phi[p].id # 0
           /\ pool[n].phi[p].incoming[2].id = pool[n].operations[k].id
    /\ Cardinality({DefinedId(d) : d \in Definitions} \ {0}) >= 8
=============================================================================
